---- MODULE Spec2Model ----
(***************************************************************************)
(* A model of gasify: quantities with units (gasify/unit.py) and the       *)
(* compound / concentration / mixture algebra (gasify/gas.py).             *)
(*                                                                         *)
(* Python floats are modelled as exact rationals [n, d] in lowest terms,   *)
(* so every sum, product and quotient below is the real-number value of    *)
(* the float expression in the source; rounding error, NaN and infinity    *)
(* are outside the model.                                                  *)
(***************************************************************************)
EXTENDS Integers, Sequences, FiniteSets

(***************************************************************************)
(* Bounds of the model.                                                    *)
(***************************************************************************)
\* CompoundConcentration objects a run may create from outside input
MaxParts == 2

(***************************************************************************)
(* Exact rational arithmetic standing in for float arithmetic.             *)
(***************************************************************************)
Abs(x) == IF x < 0 THEN -x ELSE x

RECURSIVE Gcd(_, _)
Gcd(a, b) == IF b = 0 THEN Abs(a) ELSE Gcd(b, a % b)

\* num/den divided through by g, with a positive denominator
Reduce(num, den, g) ==
    IF den < 0
    THEN [n |-> -(num \div g), d |-> -(den \div g)]
    ELSE [n |-> num \div g, d |-> den \div g]

\* The rational num/den (den # 0) in lowest terms with a positive denominator
Rat(num, den) == Reduce(num, den, Gcd(Abs(num), Abs(den)))

Zero == Rat(0, 1)
One == Rat(1, 1)

Lcm(a, b) == (a \div Gcd(a, b)) * b

\* a + b over the common denominator l
RAddOver(a, b, l) == Rat(a.n * (l \div a.d) + b.n * (l \div b.d), l)

RAdd(a, b) == RAddOver(a, b, Lcm(a.d, b.d))

RNeg(a) == [n |-> -a.n, d |-> a.d]

RSub(a, b) == RAdd(a, RNeg(b))

\* a * b with the common factors g1 of a.n, b.d and g2 of b.n, a.d cancelled,
\* which keeps the intermediate products small
RMulCancel(a, b, g1, g2) ==
    Rat((a.n \div g1) * (b.n \div g2), (a.d \div g2) * (b.d \div g1))

RMul(a, b) == RMulCancel(a, b, Gcd(Abs(a.n), b.d), Gcd(Abs(b.n), a.d))

\* b # 0; division by zero is decided by the callers, as Python raises there
RDiv(a, b) == RMul(a, Rat(b.d, b.n))

\* a < b over the common denominator l
RLtOver(a, b, l) == a.n * (l \div a.d) < b.n * (l \div b.d)

RLt(a, b) == RLtOver(a, b, Lcm(a.d, b.d))

RLe(a, b) == ~RLt(b, a)

RAbs(a) == [n |-> Abs(a.n), d |-> a.d]

(***************************************************************************)
(* Quantity: a magnitude with a unit.  unit is one of the ratio units of    *)
(* the registry (dimensionless, percent, ppm, ppb); len is the exponent of  *)
(* the length dimension (0 for a quantity compatible with dimensionless,    *)
(* 1 for metres, -1 for 1/metre).                                           *)
(***************************************************************************)
RatioUnits == {"dimensionless", "percent", "ppm", "ppb"}

Q(mag, unit) == [mag |-> mag, unit |-> unit, len |-> 0]

Metres(mag) == [mag |-> mag, unit |-> "dimensionless", len |-> 1]

\* registry.define('percent = count / 100'), ppm = count / 1e6, ppb = count / 1e9
UnitFactor(unit) ==
    CASE unit = "dimensionless" -> One
      [] unit = "percent" -> Rat(1, 100)
      [] unit = "ppm" -> Rat(1, 1000000)
      [] unit = "ppb" -> Rat(1, 1000000000)

is_compatible_with_dimensionless(q) == q.len = 0

m_as_dimensionless(q) == RMul(q.mag, UnitFactor(q.unit))

\* if to_unit == registry.percent and to_mag < 0.1
PercentToPpm(s) ==
    IF s.unit = "percent" /\ RLt(s.mag, Rat(1, 10))
    THEN [mag |-> RMul(s.mag, Rat(10000, 1)), unit |-> "ppm"]
    ELSE s

\* if to_unit == registry.ppm and to_mag < 1.0
PpmToPpb(s) ==
    IF s.unit = "ppm" /\ RLt(s.mag, One)
    THEN [mag |-> RMul(s.mag, Rat(1000, 1)), unit |-> "ppb"]
    ELSE s

\* A rescale of ppb to ppm that leaves 1000 ppb as it is
PpbToPpmAbove(s) ==
    IF s.unit = "ppb" /\ RLt(Rat(1000, 1), s.mag)
    THEN [mag |-> RDiv(s.mag, Rat(1000, 1)), unit |-> "ppm"]
    ELSE s

\* if to_unit == registry.ppb and to_mag >= 1000.0
PpbToPpm(s) ==
    IF s.unit = "ppb" /\ RLe(Rat(1000, 1), s.mag)
    THEN [mag |-> RDiv(s.mag, Rat(1000, 1)), unit |-> "ppm"]
    ELSE s

\* A rescale of ppm to percent that divides by 1000
PpmToPercentByThousand(s) ==
    IF s.unit = "ppm" /\ RLe(Rat(1000, 1), s.mag)
    THEN [mag |-> RDiv(s.mag, Rat(1000, 1)), unit |-> "percent"]
    ELSE s

\* if to_unit == registry.ppm and to_mag >= 1000.0
PpmToPercent(s) ==
    IF s.unit = "ppm" /\ RLe(Rat(1000, 1), s.mag)
    THEN [mag |-> RDiv(s.mag, Rat(10000, 1)), unit |-> "percent"]
    ELSE s

\* return Quantity(to_mag, to_unit)
Compacted(s) == Q(s.mag, s.unit)

\* A to_compact that applies the rule for large ppm before the rule for large ppb
to_compact_reordered(q) ==
    IF q.unit = "dimensionless" /\ q.len = 0
    THEN q
    ELSE IF q.len # 0
    THEN q
    ELSE Compacted(PpbToPpm(PpmToPercent(PpmToPpb(PercentToPpm(
             [mag |-> q.mag, unit |-> q.unit])))))

\* A to_compact that displays a quantity without a unit in percent, ppm or ppb
to_compact_from_dimensionless(q) ==
    IF q.len # 0
    THEN q
    ELSE Compacted(PpmToPercent(PpbToPpm(PpmToPpb(PercentToPpm(
             IF q.unit = "dimensionless"
             THEN [mag |-> RMul(q.mag, Rat(100, 1)), unit |-> "percent"]
             ELSE [mag |-> q.mag, unit |-> q.unit])))))

\* Quantity.to_compact() with unit = None
to_compact(q) ==
    IF q.unit = "dimensionless" /\ q.len = 0
    THEN q
    ELSE IF q.len # 0
    THEN q
    ELSE Compacted(PpmToPercent(PpbToPpm(PpmToPpb(PercentToPpm(
             [mag |-> q.mag, unit |-> q.unit])))))

\* Product of two quantities, at most one of which carries a ratio unit
QMul(a, b) ==
    [mag |-> RMul(a.mag, b.mag),
     unit |-> IF a.unit = "dimensionless" THEN b.unit ELSE a.unit,
     len |-> a.len + b.len]

\* Quotient a / b for b.mag # 0, b either unit-free or in the unit of a
QDiv(a, b) ==
    [mag |-> RDiv(a.mag, b.mag),
     unit |-> IF b.unit = a.unit THEN "dimensionless" ELSE a.unit,
     len |-> a.len - b.len]

\* a - b for two ratio quantities: the result is in the unit of a
QSub(a, b) ==
    [mag |-> RSub(a.mag, RDiv(m_as_dimensionless(b), UnitFactor(a.unit))),
     unit |-> a.unit,
     len |-> a.len]

(***************************************************************************)
(* Results of operations that can raise: Ok(v) or Raise(exception name).   *)
(***************************************************************************)
Ok(v) == [err |-> "none", val |-> v]

Raise(e) == [err |-> e]

(***************************************************************************)
(* Python values handed to the library: a type tag and, for the types that  *)
(* denote a quantity, the quantity denoted (for a str, what the unit        *)
(* registry reads from its text).                                           *)
(***************************************************************************)
Value(type, q) == [q |-> q, type |-> type]

AsValue(q) == Value("Quantity", q)

\* An isinstance that accepts every type
IsScalarAny(x) == TRUE

\* isinstance(other, (int, float, str, Quantity))
IsScalar(x) == x.type \in {"int", "float", "str", "Quantity"}

\* A unit given to parse: its type, and the unit it is or names (unit is
\* "unknown" for a string that the registry does not resolve)
ToUnit(type, unit, len) == [unit |-> unit, len |-> len, type |-> type]

\* to_unit = None
NoUnit == ToUnit("NoneType", "dimensionless", 0)

\* parse_unit(x)
parse_unit(x) ==
    IF x.type = "Unit" THEN Ok([unit |-> x.unit, len |-> x.len])
    ELSE IF x.type = "Quantity" THEN Ok([unit |-> x.unit, len |-> x.len])
    ELSE IF x.type # "str" THEN Raise("ParseError")
    ELSE IF x.unit # "unknown" THEN Ok([unit |-> x.unit, len |-> x.len])
    ELSE Raise("UnknownUnit")

\* A test that takes every quantity compatible with dimensionless for unitless
dimensionless_as_unitless(q) == q.len = 0

\* Quantity.unitless of pint: the quantity has no unit at all; percent, ppm and
\* ppb are units (fractions of count)
unitless(q) == q.unit = "dimensionless" /\ q.len = 0

\* The units of temperature: degC is an offset unit over kelvin
TemperatureUnits == {"degC", "kelvin"}

\* What a unit measures, lengths aside
Dimension(unit) ==
    IF unit \in TemperatureUnits THEN "temperature"
    ELSE IF unit = "g/m^3" THEN "density"
    ELSE "ratio"

\* 273.15, the offset of degC over kelvin
KelvinOffset == Rat(5463, 20)

\* q.m_as(registry.degK) for a temperature q
m_as_degK(q) == IF q.unit = "kelvin" THEN q.mag ELSE RAdd(q.mag, KelvinOffset)

\* q.m_as(registry.degC) for a temperature q
m_as_degC(q) == IF q.unit = "degC" THEN q.mag ELSE RSub(q.mag, KelvinOffset)

\* x.to(to_unit), with DimensionalityError re-raised as IncompatibleUnits
to(q, u) ==
    IF q.len # u.len \/ Dimension(q.unit) # Dimension(u.unit)
    THEN Raise("IncompatibleUnits")
    ELSE IF Dimension(u.unit) = "temperature"
    THEN Ok([mag |-> IF u.unit = "degC" THEN m_as_degC(q) ELSE m_as_degK(q),
             unit |-> u.unit, len |-> u.len])
    ELSE IF Dimension(u.unit) = "density"
    THEN Ok(q)
    ELSE Ok([mag |-> RDiv(RMul(q.mag, UnitFactor(q.unit)), UnitFactor(u.unit)),
             unit |-> u.unit, len |-> u.len])

\* if not x.unitless: x = x.to(to_unit) else: x = Quantity(x.m_as(dimensionless), to_unit)
Converted_to(q, u) ==
    IF ~unitless(q) THEN to(q, u)
    ELSE Ok([mag |-> m_as_dimensionless(q), unit |-> u.unit, len |-> u.len])

RECURSIVE Pow10(_)
\* 10 ** n
Pow10(n) == IF n = 0 THEN 1 ELSE 10 * Pow10(n - 1)

\* The integer nearest to q + rem2 / (2 * den), the even one of two equally near
RoundHalfEven(q, rem2, den) ==
    IF rem2 < den THEN q
    ELSE IF rem2 > den THEN q + 1
    ELSE IF q % 2 = 0 THEN q ELSE q + 1

\* The integer nearest to the fraction s
Nearest(s) == RoundHalfEven(s.n \div s.d, 2 * (s.n % s.d), s.d)

\* round(x, mag_round) on the magnitude
Round(r, n) == Rat(Nearest(RMul(r, Rat(Pow10(n), 1))), Pow10(n))

\* if mag_round is not None: x = round(x, mag_round); r the result so far
Rounded(r, mag_round) ==
    IF r.err # "none" \/ mag_round = <<>> THEN r
    ELSE Ok([r.val EXCEPT !.mag = Round(@, mag_round[1])])

\* Quantity(x) for a str x whose unit token the registry does not define:
\* pint raises UndefinedUnitError, which parse does not catch
undefined_unit(x) == x.type = "str" /\ x.q.unit = "unknown"

\* A parse that checks the type of x before it resolves to_unit
parse_type_first(x, to_unit, mag_round) ==
    IF x.type = "NoneType" THEN Raise("ParseError")
    ELSE IF x.type \notin {"Quantity", "int", "float", "str"} THEN Raise("ParseError")
    ELSE IF undefined_unit(x) THEN Raise("UndefinedUnitError")
    ELSE IF to_unit.type = "NoneType" THEN Rounded(Ok(x.q), mag_round)
    ELSE IF parse_unit(to_unit).err # "none" THEN Raise(parse_unit(to_unit).err)
    ELSE Rounded(Converted_to(x.q, parse_unit(to_unit).val), mag_round)

\* parse(x, to_unit, mag_round); mag_round is <<>> for None
parse_to_unit(x, to_unit, mag_round) ==
    IF x.type = "NoneType" THEN Raise("ParseError")
    ELSE IF to_unit.type # "NoneType" /\ parse_unit(to_unit).err # "none"
    THEN Raise(parse_unit(to_unit).err)
    ELSE IF x.type \notin {"Quantity", "int", "float", "str"} THEN Raise("ParseError")
    ELSE IF undefined_unit(x) THEN Raise("UndefinedUnitError")
    ELSE IF to_unit.type = "NoneType" THEN Rounded(Ok(x.q), mag_round)
    ELSE Rounded(Converted_to(x.q, parse_unit(to_unit).val), mag_round)

\* parse(x) with to_unit = None and mag_round = None
parse(x) ==
    IF x.type = "NoneType"
    THEN Raise("ParseError")
    ELSE IF x.type = "Quantity"
    THEN Ok(x.q)
    ELSE IF undefined_unit(x)
    THEN Raise("UndefinedUnitError")
    ELSE IF x.type \in {"int", "float", "str"}
    THEN Ok(x.q)
    ELSE Raise("ParseError")

(***************************************************************************)
(* Compounds.  Optional fields are sequences of length at most one (<<>>    *)
(* is None).  molecular_structure is in thousandths, specific_heat in       *)
(* 1e-4 cal/g and density in 1e-4 g/L.                                      *)
(***************************************************************************)
MONATOMIC == 1030
DIATOMIC == 1000
TRIATOMIC == 941
POLYATOMIC == 880

Compound(name, symbol, molecular_structure, specific_heat, density, analyte, order) ==
    [name |-> name, symbol |-> symbol, molecular_structure |-> molecular_structure,
     specific_heat |-> specific_heat, density |-> density,
     analyte |-> analyte, order |-> order, alias |-> {}]

\* Compound(name): every other field at its default
FreshCompound(name) == Compound(name, <<>>, <<>>, <<>>, <<>>, TRUE, 0)

nitrogen == Compound("Nitrogen", <<"N_2">>, <<DIATOMIC>>, <<2485>>, <<12500>>, FALSE, 2)

oxygen == Compound("Oxygen", <<"O_2">>, <<DIATOMIC>>, <<2193>>, <<14270>>, FALSE, 1)

hydrogen == Compound("Hydrogen", <<"H_2">>, <<DIATOMIC>>, <<33852>>, <<899>>, TRUE, 0)

nitric_oxides == Compound("Nitric-oxides", <<"NO_x">>, <<>>, <<>>, <<>>, TRUE, 0)

\* gas.Compound('Nitrogen'), as the tests build it beside the registry's nitrogen
fresh_nitrogen == FreshCompound("Nitrogen")

Compounds == {nitrogen, oxygen, hydrogen, nitric_oxides, fresh_nitrogen}

\* Position of a name in Python's str ordering
NameRank(name) ==
    CASE name = "Hydrogen" -> 1
      [] name = "Nitric-oxides" -> 2
      [] name = "Nitrogen" -> 3
      [] name = "Oxygen" -> 4

\* Compound.__eq__
CompoundEq(a, b) == a.name = b.name

\* A hash of the name and the order
CompoundHashWithOrder(self) == NameRank(self.name) * 10 + self.order

\* Compound.__hash__: hash(self.name), a number the name alone determines
CompoundHash(self) == NameRank(self.name)

\* Compound.__eq__ against a value of any type: object.__eq__ leaves the
\* comparison to the other operand, and to identity when that declines
compound_eq(self, other) ==
    IF other.type = "Compound" THEN CompoundEq(self, other.q)
    ELSE IF other.type = "CompoundConcentration" THEN CompoundEq(other.q.compound, self)
    ELSE FALSE

\* {stored: value}[key]: a dict finds a key of the same hash that is equal
DictGet(stored, key) ==
    IF CompoundHash(stored) = CompoundHash(key) /\ CompoundEq(stored, key)
    THEN Ok("value")
    ELSE Raise("KeyError")

\* Compound.__lt__: (self.order, self.name) < (other.order, other.name)
CompoundLt(a, b) ==
    \/ a.order < b.order
    \/ a.order = b.order /\ NameRank(a.name) < NameRank(b.name)

\* Compound.gcf is None
CompoundGcfIsNone(c) ==
    c.molecular_structure = <<>> \/ c.density = <<>> \/ c.specific_heat = <<>>

(***************************************************************************)
(* CompoundConcentration                                                   *)
(***************************************************************************)
\* A __post_init__ without the check that the concentration is not negative
post_init_any_sign(concentration, compound) ==
    IF ~is_compatible_with_dimensionless(concentration)
    THEN Raise("ValueError")
    ELSE Ok([compound |-> compound, concentration |-> concentration])

\* A __post_init__ without the check that the concentration is dimensionless
post_init_any_unit(concentration, compound) ==
    IF RLt(m_as_dimensionless(concentration), Zero)
    THEN Raise("ValueError")
    ELSE Ok([compound |-> compound, concentration |-> concentration])

\* CompoundConcentration.__post_init__ on the converted concentration
post_init(concentration, compound) ==
    IF ~is_compatible_with_dimensionless(concentration)
    THEN Raise("ValueError")
    ELSE IF RLt(m_as_dimensionless(concentration), Zero)
    THEN Raise("ValueError")
    ELSE Ok([compound |-> compound, concentration |-> concentration])

\* The field converter: parse(concentration).to_compact(), p the result of parse
Converted(p, compound) ==
    IF p.err # "none" THEN Raise(p.err) ELSE post_init(to_compact(p.val), compound)

\* The dataclass constructor followed by __post_init__
CompoundConcentration(concentration, compound) ==
    Converted(parse(concentration), compound)

\* CompoundConcentration(parse(other), self), p the result of parse
CompoundMulParsed(self, p) ==
    IF p.err # "none" THEN Raise(p.err) ELSE CompoundConcentration(AsValue(p.val), self)

\* Compound.__mul__ and __rmul__
CompoundMul(self, other) ==
    IF IsScalar(other) THEN CompoundMulParsed(self, parse(other)) ELSE Raise("TypeError")

\* A division that multiplies by the divisor
TruedivAsProduct(self, p) ==
    IF p.err # "none" THEN Raise(p.err)
    ELSE IF p.val.mag = Zero THEN Raise("ZeroDivisionError")
    ELSE CompoundConcentration(AsValue(QMul(self.concentration, p.val)), self.compound)

\* CompoundConcentration(self.concentration / parse(other), self.compound), p the
\* result of parse
TruedivParsed(self, p) ==
    IF p.err # "none" THEN Raise(p.err)
    ELSE IF p.val.mag = Zero THEN Raise("ZeroDivisionError")
    ELSE CompoundConcentration(AsValue(QDiv(self.concentration, p.val)), self.compound)

\* CompoundConcentration.__truediv__
ConcentrationTruediv(self, other) ==
    IF IsScalar(other) THEN TruedivParsed(self, parse(other)) ELSE Raise("TypeError")

\* A product that leaves the concentration as it was
MulParsedUnscaled(self, p) ==
    IF p.err # "none" THEN Raise(p.err)
    ELSE CompoundConcentration(AsValue(self.concentration), self.compound)

\* CompoundConcentration(parse(other) * self.concentration, self.compound), p the
\* result of parse
MulParsed(self, p) ==
    IF p.err # "none" THEN Raise(p.err)
    ELSE CompoundConcentration(AsValue(QMul(p.val, self.concentration)), self.compound)

\* CompoundConcentration.__mul__ and __rmul__
ConcentrationMul(self, other) ==
    IF ~IsScalar(other) THEN Raise("TypeError") ELSE MulParsed(self, parse(other))

\* abs(x) <= 1e-15 for a rational x (1e15 = 1e8 * 1e7)
WithinTolerance(x) ==
    \/ x.n = 0
    \/ ((x.d \div Abs(x.n)) \div 100000000) >= 10000000

\* CompoundConcentration.__eq__ against another CompoundConcentration
ConcentrationEq(self, other) ==
    /\ CompoundEq(self.compound, other.compound)
    /\ WithinTolerance(RSub(m_as_dimensionless(self.concentration),
                            m_as_dimensionless(other.concentration)))

\* An ordering of concentrations by magnitude alone, largest first
ConcentrationLtByMagnitude(self, other) ==
    RLt(m_as_dimensionless(other.concentration), m_as_dimensionless(self.concentration))

\* CompoundConcentration.__lt__ against another CompoundConcentration
ConcentrationLt(self, other) ==
    IF CompoundEq(self.compound, other.compound)
    THEN RLt(m_as_dimensionless(self.concentration),
             m_as_dimensionless(other.concentration))
    ELSE CompoundLt(self.compound, other.compound)

\* Quantity.__eq__ of pint: quantities of different dimensions are unequal
QEq(a, b) == a.len = b.len /\ m_as_dimensionless(a) = m_as_dimensionless(b)

\* x < y, x <= y, x > y or x >= y for two fractions
Ordered(rel, x, y) ==
    CASE rel = "<" -> RLt(x, y)
      [] rel = "<=" -> RLe(x, y)
      [] rel = ">" -> RLt(y, x)
      [] rel = ">=" -> RLe(y, x)

\* The ordering of two quantities by pint: DimensionalityError when their
\* dimensions differ
QOrdered(rel, a, b) ==
    IF a.len # b.len THEN Raise("DimensionalityError")
    ELSE Ok(Ordered(rel, m_as_dimensionless(a), m_as_dimensionless(b)))

\* Compound.__lt__, __le__, __gt__, __ge__ against another Compound
CompoundOrdered(rel, self, other) ==
    CASE rel = "<" -> CompoundLt(self, other)
      [] rel = "<=" -> ~CompoundLt(other, self)
      [] rel = ">" -> CompoundLt(other, self)
      [] rel = ">=" -> ~CompoundLt(self, other)

\* An equality that compares the magnitudes and ignores the units
EqParsedByMagnitude(self, p) ==
    IF p.err # "none" THEN Raise(p.err) ELSE Ok(self.concentration.mag = p.val.mag)

\* bool(self.concentration == parse(other)), p the result of parse
EqParsed(self, p) ==
    IF p.err # "none" THEN Raise(p.err) ELSE Ok(QEq(self.concentration, p.val))

\* CompoundConcentration.__eq__ against a value of any type; a value that no
\* branch accepts is compared by identity
concentration_eq(self, other) ==
    IF other.type = "CompoundConcentration" THEN Ok(ConcentrationEq(self, other.q))
    ELSE IF other.type = "Compound" THEN Ok(CompoundEq(self.compound, other.q))
    ELSE IF IsScalar(other) THEN EqParsed(self, parse(other))
    ELSE Ok(FALSE)

\* bool(self.concentration < parse(other)), p the result of parse
OrderParsed(rel, self, p) ==
    IF p.err # "none" THEN Raise(p.err) ELSE QOrdered(rel, self.concentration, p.val)

\* An ordering of two concentrations by their quantities alone, whatever
\* their compounds
concentration_ordered_by_quantity(rel, self, other) ==
    IF other.type = "CompoundConcentration"
    THEN QOrdered(rel, self.concentration, other.q.concentration)
    ELSE IF IsScalar(other) THEN OrderParsed(rel, self, parse(other))
    ELSE Raise("TypeError")

\* CompoundConcentration.__lt__, __le__, __gt__, __ge__ against a value of any
\* type; NotImplemented on both sides is a TypeError
concentration_ordered(rel, self, other) ==
    IF other.type = "CompoundConcentration"
    THEN IF CompoundEq(self.compound, other.q.compound)
         THEN QOrdered(rel, self.concentration, other.q.concentration)
         ELSE Ok(CompoundOrdered(rel, self.compound, other.q.compound))
    ELSE IF IsScalar(other) THEN OrderParsed(rel, self, parse(other))
    ELSE Raise("TypeError")

(***************************************************************************)
(* Mixture                                                                 *)
(***************************************************************************)
\* A merge that keeps the last concentration of a compound instead of the sum
MergePartOverwrite(lut, part) ==
    IF \E i \in DOMAIN lut : CompoundEq(lut[i].compound, part.compound)
    THEN [i \in DOMAIN lut |->
            IF CompoundEq(lut[i].compound, part.compound)
            THEN [compound |-> lut[i].compound,
                  concentration |-> m_as_dimensionless(part.concentration)]
            ELSE lut[i]]
    ELSE Append(lut, [compound |-> part.compound,
                      concentration |-> m_as_dimensionless(part.concentration)])

\* parts_lut[part.compound] += part.concentration.m_as(dimensionless): the dict
\* keeps the key object it saw first and its insertion order
MergePart(lut, part) ==
    IF \E i \in DOMAIN lut : CompoundEq(lut[i].compound, part.compound)
    THEN [i \in DOMAIN lut |->
            IF CompoundEq(lut[i].compound, part.compound)
            THEN [compound |-> lut[i].compound,
                  concentration |-> RAdd(lut[i].concentration,
                                         m_as_dimensionless(part.concentration))]
            ELSE lut[i]]
    ELSE Append(lut, [compound |-> part.compound,
                      concentration |-> RAdd(Zero, m_as_dimensionless(part.concentration))])

\* The loop of Mixture.__init__ over its parts
RECURSIVE parts_lut(_)
parts_lut(content) ==
    IF content = <<>>
    THEN <<>>
    ELSE MergePart(parts_lut(SubSeq(content, 1, Len(content) - 1)), content[Len(content)])

\* seq with x put at position k
InsertAt(seq, x, k) == SubSeq(seq, 1, k - 1) \o <<x>> \o SubSeq(seq, k, Len(seq))

\* The least position of `before`, or the end of seq when there is none
FirstOf(seq, before) ==
    IF before = {} THEN Len(seq) + 1 ELSE CHOOSE i \in before : \A j \in before : i <= j

\* One step of sorted(): x goes before the first element it is less than
Insert(seq, x) ==
    InsertAt(seq, x, FirstOf(seq, {i \in DOMAIN seq : ConcentrationLt(x, seq[i])}))

\* sorted(list of CompoundConcentration), stable, by __lt__
RECURSIVE sorted(_)
sorted(seq) ==
    IF seq = <<>>
    THEN <<>>
    ELSE Insert(sorted(SubSeq(seq, 1, Len(seq) - 1)), seq[Len(seq)])

\* The calls of a sequence of calls that raised
Failed(results) == {i \in DOMAIN results : results[i].err # "none"}

\* The exception of the first call that raised
FirstError(results) ==
    Raise(results[CHOOSE i \in Failed(results) : \A j \in Failed(results) : i <= j].err)

\* The values of calls that all returned
Values(results) == [i \in DOMAIN results |-> results[i].val]

\* [CompoundConcentration(concentration, compound) for compound, concentration
\*  in parts_lut.items()]
Rebuilt(lut) ==
    [i \in DOMAIN lut |->
        CompoundConcentration(AsValue(Q(lut[i].concentration, "dimensionless")),
                              lut[i].compound)]

\* tuple(sorted(...)) of the rebuilt parts, or the exception one of them raised
Sorted(made, name) ==
    IF Failed(made) # {}
    THEN FirstError(made)
    ELSE Ok([name |-> name, content |-> sorted(Values(made))])

\* Mixture(*content, name=name)
Mixture(content, name) == Sorted(Rebuilt(parts_lut(content)), name)

\* Operands of +: a CompoundConcentration is not iterable, a Mixture and a list are
IsIterable(x) == x.kind \in {"Mixture", "list"}

\* iter(x) of an iterable operand
Items(x) == IF x.kind = "Mixture" THEN x.val.content ELSE x.val

AsConcentration(c) == [kind |-> "CompoundConcentration", val |-> c]

AsMixture(m) == [kind |-> "Mixture", val |-> m]

AsList(l) == [kind |-> "list", val |-> l]

\* An operand of + that is no CompoundConcentration and holds none: a number,
\* None, a string (iterable, its items are its characters)
IsForeign(x) == x.kind \notin {"CompoundConcentration", "Mixture", "list"}

AsForeign(type) == [kind |-> type, val |-> [type |-> type]]

\* Mixture.__add__ and __radd__; Mixture.__init__ reads part.compound of every
\* part, an AttributeError for a part that is no CompoundConcentration
MixtureAdd(self, other) ==
    IF IsForeign(other)
    THEN Raise("AttributeError")
    ELSE IF IsIterable(other)
    THEN Mixture(self.content \o Items(other), "None")
    ELSE Mixture(Append(self.content, other.val), "None")

\* CompoundConcentration.__add__ and __radd__
ConcentrationAdd(self, other) ==
    IF IsForeign(other)
    THEN Raise("AttributeError")
    ELSE IF IsIterable(other)
    THEN Mixture(<<self>> \o Items(other), "None")
    ELSE Mixture(<<self, other.val>>, "None")

\* a + b as Python dispatches it: a's __add__, or b's __radd__ when a is a list
Plus(a, b) ==
    IF a.kind = "Mixture" THEN MixtureAdd(a.val, b)
    ELSE IF a.kind = "CompoundConcentration" THEN ConcentrationAdd(a.val, b)
    ELSE IF b.kind = "Mixture" THEN MixtureAdd(b.val, a)
    ELSE ConcentrationAdd(b.val, a)

RECURSIVE SumDimensionless(_)
\* sum(part.concentration.m_as(dimensionless) for part in content)
SumDimensionless(content) ==
    IF content = <<>>
    THEN Zero
    ELSE RAdd(SumDimensionless(SubSeq(content, 1, Len(content) - 1)),
              m_as_dimensionless(content[Len(content)].concentration))

\* A total that counts the parts
TotalAsCount(self) == Q(Rat(Len(self.content), 1), "dimensionless")

\* Mixture.total
total(self) == to_compact(Q(SumDimensionless(self.content), "dimensionless"))

\* A normalise that rebuilds the mixture without dividing
NormaliseWithoutDividing(self) == Mixture(self.content, self.name)

\* (part / t for part in self.content)
Divided(self, t) ==
    [i \in DOMAIN self.content |-> ConcentrationTruediv(self.content[i], AsValue(t))]

\* Mixture(*divided, name=name), or the exception a division raised
Renamed(divided, name) ==
    IF Failed(divided) # {} THEN FirstError(divided) ELSE Mixture(Values(divided), name)

\* Mixture.normalise
normalise(self) == Renamed(Divided(self, total(self)), self.name)

\* A balance that subtracts the last part only
BalanceOfLast(content) ==
    IF content = <<>>
    THEN Q(One, "dimensionless")
    ELSE QSub(Q(One, "dimensionless"), content[Len(content)].concentration)

RECURSIVE BalanceQuantity(_)
\* balance_quantity = Quantity(1.0, dimensionless), then -= part.concentration per part
BalanceQuantity(content) ==
    IF content = <<>>
    THEN Q(One, "dimensionless")
    ELSE QSub(BalanceQuantity(SubSeq(content, 1, Len(content) - 1)),
              content[Len(content)].concentration)

\* An auto_balance that leaves out a balance it could not build
BalancedWithoutFailed(content, made, name) ==
    IF made.err # "none" THEN Mixture(content, name) ELSE Mixture(Append(content, made.val), name)

\* Mixture(*content, made, name=name) for the balance concentration made
Balanced(content, made, name) ==
    IF made.err # "none" THEN Raise(made.err) ELSE Mixture(Append(content, made.val), name)

\* Mixture.auto_balance(*content, balance=balance, name=name)
auto_balance(content, balance, name) ==
    Balanced(content, CompoundConcentration(AsValue(BalanceQuantity(content)), balance),
             name)

(***************************************************************************)
(* Mixture.gcf.  Its value 0.3106 * sum(c * structure) / sum(c * density *  *)
(* specific_heat) is kept as a fraction num / den of two naturals.  The     *)
(* naturals are sequences of digits in base BigBase, least significant      *)
(* first and without leading zeros, so that no product overflows.           *)
(***************************************************************************)
BigBase == 10000

RECURSIVE BigFromInt(_)
BigFromInt(k) == IF k = 0 THEN <<>> ELSE <<k % BigBase>> \o BigFromInt(k \div BigBase)

\* The lowest digit of x
BigDigit(x) == IF x = <<>> THEN 0 ELSE Head(x)

\* The digits of x above the lowest
BigRest(x) == IF x = <<>> THEN <<>> ELSE Tail(x)

RECURSIVE BigAddCarry(_, _, _)
BigAddCarry(x, y, carry) ==
    IF x = <<>> /\ y = <<>>
    THEN BigFromInt(carry)
    ELSE <<(BigDigit(x) + BigDigit(y) + carry) % BigBase>>
             \o BigAddCarry(BigRest(x), BigRest(y),
                            (BigDigit(x) + BigDigit(y) + carry) \div BigBase)

BigAdd(x, y) == BigAddCarry(x, y, 0)

RECURSIVE BigTimesDigit(_, _, _)
BigTimesDigit(x, digit, carry) ==
    IF x = <<>>
    THEN BigFromInt(carry)
    ELSE <<(Head(x) * digit + carry) % BigBase>>
             \o BigTimesDigit(Tail(x), digit, (Head(x) * digit + carry) \div BigBase)

BigShift(x) == IF x = <<>> THEN <<>> ELSE <<0>> \o x

RECURSIVE BigMul(_, _)
BigMul(x, y) ==
    IF x = <<>> \/ y = <<>>
    THEN <<>>
    ELSE BigAdd(IF Head(y) = 0 THEN <<>> ELSE BigTimesDigit(x, Head(y), 0),
                BigShift(BigMul(x, Tail(y))))

\* a * b for naturals a, b
BigProduct(a, b) == BigMul(BigFromInt(a), BigFromInt(b))

BigZero == <<>>

RECURSIVE LcmOfDenominators(_)
LcmOfDenominators(content) ==
    IF content = <<>>
    THEN 1
    ELSE Lcm(LcmOfDenominators(SubSeq(content, 1, Len(content) - 1)),
             m_as_dimensionless(content[Len(content)].concentration).d)

\* The fraction c as a whole number of 1/l
Scaled(c, l) == c.n * (l \div c.d)

\* The concentration of a part as a whole number of 1/l
Weight(part, l) == Scaled(m_as_dimensionless(part.concentration), l)

RECURSIVE StructureSum(_, _)
\* sum(part.concentration * part.compound.molecular_structure), in 1/(1000 l)
StructureSum(content, l) ==
    IF content = <<>>
    THEN BigZero
    ELSE BigAdd(StructureSum(SubSeq(content, 1, Len(content) - 1), l),
                BigProduct(content[Len(content)].compound.molecular_structure[1],
                           Weight(content[Len(content)], l)))

RECURSIVE HeatSum(_, _)
\* sum(part.concentration * density * specific_heat), in 1/(1e8 l)
HeatSum(content, l) ==
    IF content = <<>>
    THEN BigZero
    ELSE BigAdd(HeatSum(SubSeq(content, 1, Len(content) - 1), l),
                BigProduct(content[Len(content)].compound.density[1]
                           * content[Len(content)].compound.specific_heat[1],
                           Weight(content[Len(content)], l)))

\* 0.3106, in 1e-4
GcfFactor == 3106

\* The first element of a sequence, as a sequence
FirstOnly(all) == IF all = <<>> THEN <<>> ELSE <<all[1]>>

\* An error list that stops at the first part whose compound has no gcf
ErrorListFirst(self) ==
    FirstOnly(SelectSeq(self.content, LAMBDA part : CompoundGcfIsNone(part.compound)))

\* The error_list of Mixture.gcf: the parts whose compound has no gcf
error_list(self) ==
    SelectSeq(self.content, LAMBDA part : CompoundGcfIsNone(part.compound))

\* num / den as float division computes it
GcfRatio(num, den) ==
    IF den = BigZero THEN Raise("ZeroDivisionError") ELSE Ok([num |-> num, den |-> den])

\* The quotient of the two sums without the factor 0.3106
GcfWithoutFactor(self, l) ==
    GcfRatio(BigMul(BigFromInt(100000), StructureSum(self.content, l)),
             HeatSum(self.content, l))

\* 0.3106 * sum(...) / sum(...) with the concentrations in units of 1/l
GcfOver(self, l) ==
    GcfRatio(BigMul(BigFromInt(GcfFactor * 10), StructureSum(self.content, l)),
             HeatSum(self.content, l))

\* Mixture.gcf
gcf(self) ==
    IF Len(error_list(self)) > 0
    THEN [err |-> "ValueError", missing |-> error_list(self)]
    ELSE GcfOver(self, LcmOfDenominators(self.content))

\* Compound.gcf of a compound with all three constants, as a fraction num / den
CompoundGcf(c) ==
    [num |-> BigFromInt(GcfFactor * 10 * c.molecular_structure[1]),
     den |-> BigProduct(c.density[1], c.specific_heat[1])]

(***************************************************************************)
(* Humidity.  A temperature is a quantity in degC or kelvin.  The pressure  *)
(* a method returns is kept as the formula, its coefficients and the        *)
(* temperature in degC it was evaluated at: exp and pow have no exact       *)
(* value.                                                                   *)
(***************************************************************************)
WATER_TEMPERATURE_FREEZE == Q(Zero, "degC")

WATER_TEMPERATURE_BOIL == Q(Rat(100, 1), "degC")

WATER_TEMPERATURE_CRITICAL == Q(Rat(647096, 1000), "kelvin")

\* _WATER_VP_SAT_SIMPLE_MAX
WATER_VP_SAT_SIMPLE_MAX == Q(Rat(100, 1), "degC")

\* _WATER_VP_SAT_TENTENS_MAX
WATER_VP_SAT_TENTENS_MAX == Q(Rat(75, 1), "degC")

\* registry.degC as the to_unit of parse
degC == ToUnit("Unit", "degC", 0)

\* a < b for two temperatures
TemperatureLt(a, b) == RLt(m_as_degK(a), m_as_degK(b))

\* What a call did: the value it returned or the exception it raised, and the
\* warnings it emitted on the way
Outcome(result, warnings) == [result |-> result, warnings |-> warnings]

Pressure(formula, coefficients, at) ==
    [formula |-> formula, coefficients |-> coefficients, at |-> at]

\* A range check that warns on the bounds as well
RangeWarningsInclusive(temperature, high) ==
    IF \/ ~TemperatureLt(WATER_TEMPERATURE_FREEZE, temperature)
       \/ ~TemperatureLt(temperature, high)
    THEN <<"TemperatureRangeWarning">>
    ELSE <<>>

\* if temperature < WATER_TEMPERATURE_FREEZE: warnings.warn(...)
\* elif temperature > high: warnings.warn(...)
RangeWarnings(temperature, high) ==
    IF TemperatureLt(temperature, WATER_TEMPERATURE_FREEZE)
    THEN <<"TemperatureRangeWarning">>
    ELSE IF TemperatureLt(high, temperature)
    THEN <<"TemperatureRangeWarning">>
    ELSE <<>>

\* The value of a formula that divides by denominator
Formula(formula, coefficients, temperature, denominator) ==
    IF denominator = Zero
    THEN Raise("ZeroDivisionError")
    ELSE Ok(Pressure(formula, coefficients, m_as_degC(temperature)))

\* water_vp_sat_wagner_pruss after temperature = parse(temperature, registry.degC):
\* critical / temperature divides by the kelvin, and math.pow of a negative
\* vartheta to the power 1.5 is a math domain error
WagnerPrussParsed(r) ==
    IF r.err # "none" THEN Outcome(r, <<>>)
    ELSE IF m_as_degK(r.val) = Zero THEN Outcome(Raise("ZeroDivisionError"), <<>>)
    ELSE IF TemperatureLt(WATER_TEMPERATURE_CRITICAL, r.val)
    THEN Outcome(Raise("ValueError"), <<>>)
    ELSE Outcome(Ok(Pressure("wagner_pruss", <<>>, m_as_degC(r.val))), <<>>)

water_vp_sat_wagner_pruss(temperature) ==
    WagnerPrussParsed(parse_to_unit(temperature, degC, <<>>))

\* temperature < _WATER_VP_SAT_SIMPLE_MIN, temperature > WATER_TEMPERATURE_CRITICAL
\* on the argument as given: pint orders two temperatures, raises
\* DimensionalityError for a quantity of another dimension and refuses to
\* order a quantity with a value that is no Quantity
SimpleChecked(temperature) ==
    IF temperature.type # "Quantity"
    THEN Raise(IF temperature.type \in {"int", "float"} /\ temperature.q.mag = Zero
               THEN "OffsetUnitCalculusError" ELSE "ValueError")
    ELSE IF temperature.q.len # 0 \/ Dimension(temperature.q.unit) # "temperature"
    THEN Raise("DimensionalityError")
    ELSE Ok(RangeWarnings(temperature.q, WATER_TEMPERATURE_CRITICAL))

\* The rest of water_vp_sat_simple: parse, then 5132 / temperature.m_as(registry.degK)
SimpleParsed(warnings, r) ==
    IF r.err # "none" THEN Outcome(r, warnings)
    ELSE Outcome(Formula("simple", <<>>, r.val, m_as_degK(r.val)), warnings)

water_vp_sat_simple(temperature) ==
    IF SimpleChecked(temperature).err # "none"
    THEN Outcome(SimpleChecked(temperature), <<>>)
    ELSE SimpleParsed(SimpleChecked(temperature).val, parse_to_unit(temperature, degC, <<>>))

\* a, b, c of the Antoine method: one set above boiling, one up to it
AntoineCoefficients(temperature) ==
    IF TemperatureLt(WATER_TEMPERATURE_BOIL, temperature)
    THEN <<Rat(814019, 100000), Rat(181094, 100), Rat(244485, 1000)>>
    ELSE <<Rat(807131, 100000), Rat(173063, 100), Rat(233426, 1000)>>

\* A method that parses, warns with `check` and divides by denominator
Bounded(formula, r, coefficients, denominator, check) ==
    IF r.err # "none" THEN Outcome(r, <<>>)
    ELSE Outcome(Formula(formula, coefficients, r.val, denominator), check)

\* water_vp_sat_antoine after the parse: b / (c + temperature.m_as(registry.degC))
AntoineParsed(r) ==
    Bounded("antoine", r, AntoineCoefficients(r.val),
            RAdd(AntoineCoefficients(r.val)[3], m_as_degC(r.val)),
            RangeWarnings(r.val, WATER_TEMPERATURE_CRITICAL))

water_vp_sat_antoine(temperature) ==
    AntoineParsed(parse_to_unit(temperature, degC, <<>>))

\* water_vp_sat_magnus after the parse: ... / (temperature.m_as(registry.degC) + 243.04)
MagnusParsed(r) ==
    Bounded("magnus", r, <<>>, RAdd(m_as_degC(r.val), Rat(24304, 100)),
            RangeWarnings(r.val, WATER_VP_SAT_SIMPLE_MAX))

water_vp_sat_magnus(temperature) ==
    MagnusParsed(parse_to_unit(temperature, degC, <<>>))

\* water_vp_sat_tetens after the parse: ... / (temperature.m_as(registry.degC) + 237.3)
TetensParsed(r) ==
    Bounded("tetens", r, <<>>, RAdd(m_as_degC(r.val), Rat(2373, 10)),
            RangeWarnings(r.val, WATER_VP_SAT_TENTENS_MAX))

water_vp_sat_tetens(temperature) ==
    TetensParsed(parse_to_unit(temperature, degC, <<>>))

\* water_vp_sat_buck after the parse: temperature_m / (257.14 + temperature_m)
BuckParsed(r) ==
    Bounded("buck", r, <<>>, RAdd(Rat(25714, 100), m_as_degC(r.val)),
            RangeWarnings(r.val, WATER_VP_SAT_TENTENS_MAX))

water_vp_sat_buck(temperature) ==
    BuckParsed(parse_to_unit(temperature, degC, <<>>))

Methods == {"wagner_pruss", "simple", "antoine", "magnus", "tetens", "buck"}

\* water_vp_sat_<method>(temperature)
water_vp_sat(method, temperature) ==
    CASE method = "wagner_pruss" -> water_vp_sat_wagner_pruss(temperature)
      [] method = "simple" -> water_vp_sat_simple(temperature)
      [] method = "antoine" -> water_vp_sat_antoine(temperature)
      [] method = "magnus" -> water_vp_sat_magnus(temperature)
      [] method = "tetens" -> water_vp_sat_tetens(temperature)
      [] method = "buck" -> water_vp_sat_buck(temperature)

\* WATER_GAS_CONSTANT.magnitude, in J / (g K)
WATER_GAS_CONSTANT == Rat(4615, 10000)

\* registry.g / pow(registry.meter, 3) as the to_unit of parse
unit_absolute == ToUnit("Unit", "g/m^3", 0)

\* unit.dimensionless as the to_unit of parse
dimensionless == ToUnit("Unit", "dimensionless", 0)

\* What water_vp_method is: None for the default, or a function of the caller
\* that returns Quantity(2769, registry.Pa) at every temperature
WaterVpMethods == {"None", "callable"}

\* water_vp_method = water_vp_method or water_vp_sat_wagner_pruss, then
\* water_vp_method(temperature)
water_vp_method_of(water_vp_method, temperature) ==
    IF water_vp_method = "None"
    THEN water_vp_sat_wagner_pruss(temperature)
    ELSE Outcome(Ok(Pressure("callable", <<>>, m_as_degC(temperature.q))), <<>>)

\* pressure.m_as(registry.Pa): 2769 for the function of the caller; for
\* wagner_pruss the pressures the tests hold it to at -25 and -50 degC
Pascals(pressure) ==
    CASE pressure.formula = "callable" -> Rat(2769, 1)
      [] pressure.formula = "wagner_pruss" /\ pressure.at = Rat(-25, 1) -> Rat(8088, 100)
      [] pressure.formula = "wagner_pruss" /\ pressure.at = Rat(-50, 1) -> Rat(6447, 1000)

\* q.m_as(unit_relative), unit_relative = registry.percent
m_as_percent(q) == RDiv(m_as_dimensionless(q), UnitFactor("percent"))

\* The Quantity relative_to_absolute returns, from the parsed arguments and
\* the outcome vp of water_vp_method(temperature)
RelativeToAbsoluteOf(relative_humidity, temperature, vp) ==
    IF vp.result.err # "none" THEN vp
    ELSE IF m_as_degK(temperature) = Zero
    THEN Outcome(Raise("ZeroDivisionError"), vp.warnings)
    ELSE Outcome(Ok(Q(RDiv(RMul(m_as_percent(relative_humidity), Pascals(vp.result.val)),
                           RMul(WATER_GAS_CONSTANT, m_as_degK(temperature))),
                      "g/m^3")),
                 vp.warnings)

\* relative_to_absolute(relative_humidity, temperature, water_vp_method)
relative_to_absolute(relative_humidity, temperature, water_vp_method) ==
    IF parse_to_unit(relative_humidity, dimensionless, <<>>).err # "none"
    THEN Outcome(parse_to_unit(relative_humidity, dimensionless, <<>>), <<>>)
    ELSE IF parse_to_unit(temperature, degC, <<>>).err # "none"
    THEN Outcome(parse_to_unit(temperature, degC, <<>>), <<>>)
    ELSE RelativeToAbsoluteOf(
            parse_to_unit(relative_humidity, dimensionless, <<>>).val,
            parse_to_unit(temperature, degC, <<>>).val,
            water_vp_method_of(water_vp_method,
                Value("Quantity", parse_to_unit(temperature, degC, <<>>).val)))

\* The Quantity absolute_to_relative returns, from the parsed arguments and
\* the outcome vp of water_vp_method(temperature)
AbsoluteToRelativeOf(absolute_humidity, temperature, vp) ==
    IF vp.result.err # "none" THEN vp
    ELSE IF Pascals(vp.result.val) = Zero
    THEN Outcome(Raise("ZeroDivisionError"), vp.warnings)
    ELSE Outcome(Ok(Q(RDiv(RMul(RMul(WATER_GAS_CONSTANT, m_as_degK(temperature)),
                                absolute_humidity.mag),
                           Pascals(vp.result.val)),
                      "percent")),
                 vp.warnings)

\* absolute_to_relative(absolute_humidity, temperature, water_vp_method)
absolute_to_relative(absolute_humidity, temperature, water_vp_method) ==
    IF parse_to_unit(absolute_humidity, unit_absolute, <<>>).err # "none"
    THEN Outcome(parse_to_unit(absolute_humidity, unit_absolute, <<>>), <<>>)
    ELSE IF parse_to_unit(temperature, degC, <<>>).err # "none"
    THEN Outcome(parse_to_unit(temperature, degC, <<>>), <<>>)
    ELSE AbsoluteToRelativeOf(
            parse_to_unit(absolute_humidity, unit_absolute, <<>>).val,
            parse_to_unit(temperature, degC, <<>>).val,
            water_vp_method_of(water_vp_method,
                Value("Quantity", parse_to_unit(temperature, degC, <<>>).val)))

(***************************************************************************)
(* Objects.  A Quantity, a Compound, a CompoundConcentration and a Mixture  *)
(* are objects with an identity, their position in the heap; a              *)
(* CompoundConcentration refers to its compound and its concentration, a    *)
(* Mixture to its parts.  An operation returns the heap it leaves and the   *)
(* object it returned.                                                      *)
(***************************************************************************)
MaxObjects == 14

QuantityObject(q) == [q |-> q, class |-> "Quantity"]

CompoundObject(compound) == [compound |-> compound, class |-> "Compound"]

ConcentrationObject(compound, concentration) ==
    [compound |-> compound, concentration |-> concentration,
     class |-> "CompoundConcentration"]

MixtureObject(content, name) == [name |-> name, content |-> content, class |-> "Mixture"]

\* The operation returned the object ref and left the heap h
Left(h, ref) == [err |-> "none", h |-> h, ref |-> ref]

\* The operation raised e and left the heap h
Thrown(h, e) == [err |-> e, h |-> h, ref |-> 0]

\* The objects of a class
ObjectsOf(h, class) == {i \in DOMAIN h : h[i].class = class}

\* The CompoundConcentration the object c holds, as a value
ConcentrationAt(h, c) ==
    [compound |-> h[h[c].compound].compound, concentration |-> h[h[c].concentration].q]

\* The Mixture the object mixture holds, as a value
MixtureAt(h, mixture) ==
    [name |-> h[mixture].name,
     content |-> [i \in DOMAIN h[mixture].content |->
                    ConcentrationAt(h, h[mixture].content[i])]]

\* The Compound object that is the key of a part: the object of that name
CompoundAt(h, compound) ==
    CHOOSE i \in ObjectsOf(h, "Compound") : CompoundEq(h[i].compound, compound)

\* CompoundConcentration(concentration, compound) for a Quantity that passed
\* __post_init__: to_compact() makes a copy of the quantity, and the new
\* object refers to the copy
Concentrated(h, c) ==
    Append(Append(h, QuantityObject(c.concentration)),
           ConcentrationObject(CompoundAt(h, c.compound), Len(h) + 1))

RECURSIVE Parts(_, _)
\* The CompoundConcentration objects Mixture.__init__ builds from parts_lut
Parts(h, content) ==
    IF content = <<>> THEN h ELSE Parts(Concentrated(h, Head(content)), Tail(content))

\* Mixture.__init__ on a new object: its content is a tuple of new parts
Mixed(h, mixture) ==
    Append(Parts(h, mixture.content),
           MixtureObject([i \in DOMAIN mixture.content |-> Len(h) + 2 * i], mixture.name))

\* self.concentration *= other: the product written into the quantity q
TimesInPlace(h, q, product) == [h EXCEPT ![q] = QuantityObject(product)]

\* other * self.concentration, self.concentration / other: a new Quantity
Times(h, q, product) == Append(h, QuantityObject(product))

\* What a constructor that got the result r of the model of its values
\* leaves: the exception, or the new object `made` builds on the heap h
Constructed(h, r, made) ==
    IF r.err # "none" THEN Thrown(h, r.err) ELSE Left(made, Len(made))

\* compound * k, k * compound
compound_mul_on(h, compound, k) ==
    Constructed(h, CompoundMul(h[compound].compound, k),
                Concentrated(h, CompoundMul(h[compound].compound, k).val))

\* The heap after parse(k) * self.concentration or self.concentration / parse(k)
Scaled_on(h, c, k, product) ==
    IF ~IsScalar(k) \/ parse(k).err # "none" \/ product.err # "none"
    THEN h
    ELSE Times(h, h[c].concentration, product.val.concentration)

\* c * k, k * c
mul_on(h, c, k) ==
    Constructed(Scaled_on(h, c, k, ConcentrationMul(ConcentrationAt(h, c), k)),
                ConcentrationMul(ConcentrationAt(h, c), k),
                Concentrated(Scaled_on(h, c, k, ConcentrationMul(ConcentrationAt(h, c), k)),
                             ConcentrationMul(ConcentrationAt(h, c), k).val))

\* c / k
truediv_on(h, c, k) ==
    Constructed(Scaled_on(h, c, k, ConcentrationTruediv(ConcentrationAt(h, c), k)),
                ConcentrationTruediv(ConcentrationAt(h, c), k),
                Concentrated(Scaled_on(h, c, k, ConcentrationTruediv(ConcentrationAt(h, c), k)),
                             ConcentrationTruediv(ConcentrationAt(h, c), k).val))

\* The operand of + that the object a is
OperandAt(h, a) ==
    IF h[a].class = "Mixture" THEN AsMixture(MixtureAt(h, a))
    ELSE AsConcentration(ConcentrationAt(h, a))

\* a + b
add_on(h, a, b) ==
    Constructed(h, Plus(OperandAt(h, a), OperandAt(h, b)),
                Mixed(h, Plus(OperandAt(h, a), OperandAt(h, b)).val))

\* mixture.normalise()
normalise_on(h, mixture) ==
    Constructed(h, normalise(MixtureAt(h, mixture)),
                Mixed(h, normalise(MixtureAt(h, mixture)).val))

RECURSIVE Balance_on(_, _, _)
\* balance_quantity -= part.concentration for every part: the Quantity object
\* balance_quantity is changed in place
Balance_on(h, balance_quantity, content) ==
    IF content = <<>> THEN h
    ELSE Balance_on([h EXCEPT ![balance_quantity].q = QSub(@, h[h[Head(content)].concentration].q)],
                    balance_quantity, Tail(content))

\* balance_quantity = Quantity(1.0, dimensionless), a new object, then the loop
Balancing(h, content) ==
    Balance_on(Append(h, QuantityObject(Q(One, "dimensionless"))), Len(h) + 1, content)

\* The values of the parts content refers to
ContentAt(h, content) == [i \in DOMAIN content |-> ConcentrationAt(h, content[i])]

\* Mixture.auto_balance(*content, balance=balance, name=name)
auto_balance_on(h, content, balance, name) ==
    Constructed(Balancing(h, content),
                auto_balance(ContentAt(h, content), h[balance].compound, name),
                Mixed(Balancing(h, content),
                      auto_balance(ContentAt(h, content), h[balance].compound, name).val))

\* The compounds of the registry that the model follows as objects
RegistryCompounds == <<CompoundObject(nitrogen), CompoundObject(oxygen), CompoundObject(hydrogen)>>

\* air = Mixture.auto_balance(0.21 * oxygen, balance=nitrogen, name='Air'), r
\* what 0.21 * oxygen returned
AirOn(r) == auto_balance_on(r.h, <<r.ref>>, 1, "Air")

\* The objects after the import of the library
InitialHeap ==
    AirOn(compound_mul_on(RegistryCompounds, 2,
                          Value("float", Q(Rat(21, 100), "dimensionless")))).h

(***************************************************************************)
(* The program: a caller that creates concentrations, collects them in a    *)
(* list of arguments and builds, combines, normalises and queries the       *)
(* current mixture.                                                         *)
(***************************************************************************)
VARIABLES
    m,          \* the current Mixture
    args,       \* the CompoundConcentration objects created and not yet used
    op,         \* the operation performed last
    err,        \* the exception it raised, or "none"
    supplied,   \* the parts the last mixture-building operation was given
    bal,        \* the balance compound of the last auto_balance, as <<>> or <<compound>>
    prev,       \* the current Mixture before the last operation
    rev,        \* the result of the last + with its operands swapped
    res,        \* the result of the last gcf
    created,    \* the number of CompoundConcentration objects created
    given,      \* the value or factor the last creating operation was given, as <<>> or <<value>>
    operand     \* the concentration it multiplied or divided, as <<>> or <<concentration>>

\* A function of the library called on its own
VARIABLES
    call,       \* the name of the function called last on its own, or "none"
    inp,        \* the arguments of that call
    out,        \* what that call returned or raised
    warned      \* the warnings that call emitted, in order

\* The objects of the program: heap[i] is the object with identity i
VARIABLES heap

mixtures == <<m, args, op, err, supplied, bal, prev, rev, res, created, given, operand>>

calls == <<call, inp, out, warned>>

vars == <<m, args, op, err, supplied, bal, prev, rev, res, created, given, operand,
          call, inp, out, warned, heap>>

NoQuantity == Q(Zero, "dimensionless")

\* Values a caller passes to CompoundConcentration(value, compound)
InputValues ==
    {Value("float", Q(Rat(3, 4), "dimensionless")),
     Value("float", Q(Rat(-1, 2), "dimensionless")),
     Value("Quantity", Metres(Rat(2, 1))),
     Value("NoneType", NoQuantity)}

\* Values a caller multiplies a compound by
InputScalars ==
    {Value("str", Q(Rat(25, 1), "percent")),
     Value("int", Q(Rat(-1, 1), "dimensionless")),
     Value("object", NoQuantity)}

\* The registry compounds a caller multiplies by a scalar
InputCompounds == {oxygen, hydrogen}

\* Values a caller multiplies or divides a concentration by
InputFactors ==
    {Value("int", Q(Rat(2, 1), "dimensionless")),
     Value("int", Q(Zero, "dimensionless")),
     Value("float", Q(Rat(-1, 1), "dimensionless")),
     Value("Quantity", Metres(Rat(2, 1))),
     Value("object", NoQuantity)}

\* Compounds a caller names as the balance of auto_balance
InputBalances == {nitrogen, hydrogen}

\* air = Mixture.auto_balance(0.21 * oxygen, balance=nitrogen, name='Air')
air_parts == <<CompoundMul(oxygen, Value("float", Q(Rat(21, 100), "dimensionless"))).val>>

air == auto_balance(air_parts, nitrogen, "Air").val

Init ==
    /\ m = air
    /\ args = <<>>
    /\ op = "auto_balance"
    /\ err = "none"
    /\ supplied = air_parts
    /\ bal = <<nitrogen>>
    /\ prev = air
    /\ rev = Raise("none")
    /\ res = Raise("none")
    /\ created = 0
    /\ given = <<>>
    /\ operand = <<>>
    /\ call = "none"
    /\ inp = <<>>
    /\ out = Raise("none")
    /\ warned = <<>>
    /\ heap = InitialHeap

\* Bookkeeping shared by the operations that build no mixture
NoMixtureBuilt ==
    /\ supplied' = <<>>
    /\ bal' = <<>>
    /\ prev' = m
    /\ rev' = Raise("none")
    /\ res' = Raise("none")

\* The caller receives a newly created concentration, or the exception
Created(r, name, kept, value, self) ==
    /\ op' = name
    /\ given' = <<value>>
    /\ operand' = self
    /\ err' = r.err
    /\ args' = IF r.err = "none" THEN Append(kept, r.val) ELSE args
    /\ created' = IF r.err = "none" THEN created + 1 ELSE created
    /\ m' = m
    /\ NoMixtureBuilt
    /\ UNCHANGED <<calls, heap>>

\* CompoundConcentration(value, compound)
NewConcentration(value, compound) ==
    /\ created < MaxParts
    /\ Created(CompoundConcentration(value, compound), "CompoundConcentration", args,
               value, <<>>)

\* compound * value, value * compound
MulCompound(compound, value) ==
    /\ created < MaxParts
    /\ Created(CompoundMul(compound, value), "Compound.__mul__", args, value, <<>>)

\* c * k, k * c for the newest concentration c
ScaleConcentration(k) ==
    /\ created < MaxParts
    /\ args # <<>>
    /\ Created(ConcentrationMul(args[Len(args)], k), "CompoundConcentration.__mul__",
               SubSeq(args, 1, Len(args) - 1), k, <<args[Len(args)]>>)

\* c / k for the newest concentration c
DivideConcentration(k) ==
    /\ created < MaxParts
    /\ args # <<>>
    /\ Created(ConcentrationTruediv(args[Len(args)], k),
               "CompoundConcentration.__truediv__", SubSeq(args, 1, Len(args) - 1),
               k, <<args[Len(args)]>>)

\* The caller receives a newly built mixture, or the exception
Built(r, name, parts, left) ==
    /\ op' = name
    /\ err' = r.err
    /\ m' = IF r.err = "none" THEN r.val ELSE m
    /\ args' = IF r.err = "none" THEN left ELSE args
    /\ supplied' = parts
    /\ prev' = m
    /\ res' = Raise("none")
    /\ created' = created
    /\ given' = <<>>
    /\ operand' = <<>>
    /\ UNCHANGED <<calls, heap>>

\* m = Mixture(*args)
Construct ==
    /\ op # "Mixture" \/ args # <<>>
    /\ Built(Mixture(args, "None"), "Mixture", args, <<>>)
    /\ bal' = <<>>
    /\ rev' = Raise("none")

\* m = Mixture.auto_balance(*args, balance=balance)
AutoBalance(balance) ==
    /\ args # <<>>
    /\ Built(auto_balance(args, balance, "None"), "auto_balance", args, <<>>)
    /\ bal' = <<balance>>
    /\ rev' = Raise("none")

\* m = m + other, with other + m computed beside it
Add(other, parts, left) ==
    /\ Built(Plus(AsMixture(m), other), "+", m.content \o parts, left)
    /\ bal' = <<>>
    /\ rev' = Plus(other, AsMixture(m))

\* m + c for the newest concentration c
AddConcentration ==
    /\ args # <<>>
    /\ Add(AsConcentration(args[Len(args)]), <<args[Len(args)]>>,
           SubSeq(args, 1, Len(args) - 1))

\* m + [c1, ..., cn]
AddList ==
    /\ args # <<>>
    /\ Add(AsList(args), args, <<>>)

\* m + Mixture(c1, ..., cn)
AddMixture ==
    /\ args # <<>>
    /\ Add(AsMixture(Mixture(args, "None").val), Mixture(args, "None").val.content, <<>>)

\* m = a + b, with b + a computed beside it
AddPair(a, b) ==
    /\ Built(Plus(AsConcentration(a), AsConcentration(b)), "+", <<a, b>>,
             SubSeq(args, 1, Len(args) - 2))
    /\ rev' = Plus(AsConcentration(b), AsConcentration(a))
    /\ bal' = <<>>

\* m = c1 + c2 for the two newest concentrations
AddConcentrations ==
    /\ Len(args) >= 2
    /\ AddPair(args[Len(args) - 1], args[Len(args)])

\* m = m.normalise()
Normalise ==
    /\ Built(normalise(m), "normalise", m.content, args)
    /\ bal' = <<>>
    /\ rev' = Raise("none")

\* m.gcf
Gcf ==
    /\ op' = "gcf"
    /\ res' = gcf(m)
    /\ err' = res'.err
    /\ supplied' = <<>>
    /\ bal' = <<>>
    /\ prev' = m
    /\ rev' = Raise("none")
    /\ given' = <<>>
    /\ operand' = <<>>
    /\ UNCHANGED <<m, args, created>>
    /\ UNCHANGED <<calls, heap>>

Next ==
    \/ \E value \in InputValues, compound \in Compounds : NewConcentration(value, compound)
    \/ \E value \in InputScalars, compound \in InputCompounds : MulCompound(compound, value)
    \/ \E k \in InputFactors : ScaleConcentration(k)
    \/ \E k \in InputFactors : DivideConcentration(k)
    \/ Construct
    \/ \E balance \in InputBalances : AutoBalance(balance)
    \/ AddConcentration
    \/ AddList
    \/ AddMixture
    \/ AddConcentrations
    \/ Normalise
    \/ Gcf

Spec == Init /\ [][Next]_vars

(***************************************************************************)
(* The functions of the library called on their own, with arguments drawn   *)
(* from small sets.                                                         *)
(***************************************************************************)
\* A call of the named function with the given arguments and result
Called(name, arguments, result) ==
    /\ call' = name
    /\ inp' = arguments
    /\ out' = result
    /\ warned' = <<>>
    /\ UNCHANGED <<mixtures, heap>>

\* A call that may warn before it returns or raises
CalledWarning(name, arguments, outcome) ==
    /\ call' = name
    /\ inp' = arguments
    /\ out' = outcome.result
    /\ warned' = outcome.warnings
    /\ UNCHANGED <<mixtures, heap>>

\* Values of every type a caller may pass as a scalar
Scalars == InputValues \cup InputScalars \cup InputFactors

\* Values of every type a caller may multiply or divide a concentration by
Factors ==
    InputValues \cup InputFactors
        \cup {Value("Quantity", Q(Rat(2, 1), "dimensionless")),
              Value("str", Q(Rat(2, 1), "dimensionless"))}

\* Concentrations a caller holds
Concentrations ==
    {CompoundConcentration(Value("float", Q(Rat(3, 4), "dimensionless")), oxygen).val,
     CompoundMul(hydrogen, Value("str", Q(Rat(25, 1), "percent"))).val,
     CompoundConcentration(Value("int", Q(Zero, "dimensionless")), nitric_oxides).val}

\* Compound has no __truediv__: compound / other
CompoundTruediv(self, other) == Raise("TypeError")

\* compound * x, x * compound
CallCompoundMul(compound, x) ==
    Called("Compound.__mul__", <<compound, x>>, CompoundMul(compound, x))

\* compound / x
CallCompoundTruediv(compound, x) ==
    Called("Compound.__truediv__", <<compound, x>>, CompoundTruediv(compound, x))

\* c * k, k * c
CallConcentrationMul(c, k) ==
    Called("CompoundConcentration.__mul__", <<c, k>>, ConcentrationMul(c, k))

\* c / k
CallConcentrationTruediv(c, k) ==
    Called("CompoundConcentration.__truediv__", <<c, k>>, ConcentrationTruediv(c, k))

\* (c * k) / k, r the result of c * k
Quotient(r, k) == IF r.err # "none" THEN r ELSE ConcentrationTruediv(r.val, k)

\* (c * k) / k
CallMulThenTruediv(c, k) ==
    Called("(c * k) / k", <<c, k>>, Quotient(ConcentrationMul(c, k), k))

\* Values of every type a caller may compare a concentration with
Comparands ==
    Scalars \cup Factors
        \cup {Value("float", Q(Rat(1, 4), "dimensionless"))}
        \cup {Value("Compound", compound) : compound \in InputCompounds}
        \cup {Value("CompoundConcentration", c) : c \in Concentrations}

\* The ordering comparisons
Orderings == {"<", "<=", ">", ">="}

\* c == x
CallConcentrationEq(c, x) ==
    Called("CompoundConcentration.__eq__", <<c, x, "==">>, concentration_eq(c, x))

\* gas.Compound('Oxygen'), as the tests build it beside the registry's oxygen
fresh_oxygen == FreshCompound("Oxygen")

\* Concentrations a caller orders: of the compounds of the tests, of a
\* compound that sorts after oxygen by order and before it by name, and of a
\* second Compound named Oxygen
OrderedConcentrations ==
    {CompoundConcentration(Value("float", Q(Rat(1, 10), "dimensionless")), oxygen).val,
     CompoundConcentration(Value("float", Q(Rat(9, 10), "dimensionless")), hydrogen).val,
     CompoundConcentration(Value("float", Q(Rat(1, 2), "dimensionless")), nitrogen).val,
     CompoundConcentration(Value("str", Q(Rat(50, 1), "percent")), fresh_oxygen).val}

\* c < x, c <= x, c > x, c >= x
CallConcentrationOrdered(rel, c, x) ==
    Called("CompoundConcentration.__lt__", <<c, x, rel>>, concentration_ordered(rel, c, x))

\* Compounds a caller compares and uses as dictionary keys
Keys ==
    Compounds \cup {fresh_oxygen, [fresh_oxygen EXCEPT !.alias = {"O2"}]}

\* a < b, a == b and a > b of two Compounds
CallCompoundCompare(a, b) ==
    Called("Compound.__lt__", <<a, b>>,
           Ok([lt |-> CompoundOrdered("<", a, b), eq |-> CompoundEq(a, b),
               gt |-> CompoundOrdered(">", a, b)]))

\* compound == x
CallCompoundEq(compound, x) ==
    Called("Compound.__eq__", <<compound, x>>, Ok(compound_eq(compound, x)))

\* {stored: value}[key]
CallDictGet(stored, key) ==
    Called("dict.__getitem__", <<stored, key>>, DictGet(stored, key))

\* Quantities a caller compacts: the values PrintingTestCase prints, values
\* at the thresholds of the rules, a bare fraction and a length
Quantities ==
    {Q(Rat(1, 1), "ppb"), Q(Rat(999, 1), "ppb"), Q(Rat(1000, 1), "ppb"),
     Q(Rat(999999, 1), "ppb"), Q(Rat(1000000, 1), "ppb"), Q(Rat(1000000000, 1), "ppb"),
     Q(Rat(1, 1000), "ppm"), Q(Rat(999, 1000), "ppm"), Q(Rat(1, 1), "ppm"),
     Q(Rat(999, 1), "ppm"), Q(Rat(1000, 1), "ppm"), Q(Rat(1000000, 1), "ppm"),
     Q(Rat(1, 10000000), "percent"), Q(Rat(1, 10000), "percent"),
     Q(Rat(99, 1000), "percent"), Q(Rat(1, 10), "percent"), Q(Rat(1, 1), "percent"),
     Q(Rat(1000, 1), "percent"), Q(Zero, "percent"), Q(Rat(-5, 1), "percent"),
     Q(Rat(21, 100), "dimensionless"), Metres(Rat(2, 1))}

\* q.to_compact()
CallToCompact(q) == Called("Quantity.to_compact", <<q>>, Ok(to_compact(q)))

\* q.to_compact().to_compact(): the first result and the second
CallToCompactTwice(q) ==
    Called("Quantity.to_compact.to_compact", <<q>>,
           Ok([once |-> to_compact(q), twice |-> to_compact(to_compact(q))]))

\* The most components a caller hands to auto_balance
MaxComponents == MaxParts + 1

\* Components a caller balances: a quarter of nitrogen, and a quarter and a
\* half of oxygen
Components ==
    {CompoundConcentration(Value("float", Q(Rat(1, 4), "dimensionless")), nitrogen).val,
     CompoundConcentration(Value("float", Q(Rat(1, 4), "dimensionless")), oxygen).val,
     CompoundConcentration(Value("str", Q(Rat(50, 1), "percent")), oxygen).val}

\* The tuples of 1 to MaxComponents components
ComponentTuples ==
    UNION {[1..n -> Components] : n \in 1..MaxComponents}

\* Mixture.auto_balance(*content, balance=balance)
CallAutoBalance(content, balance) ==
    Called("Mixture.auto_balance", <<content, balance>>, auto_balance(content, balance, "None"))

\* Values a caller hands to the constructor of CompoundConcentration
Supplied == Scalars \cup {Value("Quantity", q) : q \in Quantities}

\* CompoundConcentration(x, compound)
CallCompoundConcentration(x, compound) ==
    Called("CompoundConcentration", <<compound, x>>, CompoundConcentration(x, compound))

\* The tuples of concentrations a caller builds a mixture from
Contents ==
    {<<c>> : c \in Concentrations} \cup {<<c, d>> : c \in Concentrations, d \in Concentrations}

\* Mixture(*content)
CallMixture(content) == Called("Mixture", <<content>>, Mixture(content, "None"))

\* Values a caller parses
ParseValues ==
    Scalars \cup Factors
        \cup {Value("Quantity", Q(Rat(5, 1), "percent")),
              Value("Quantity", Q(Rat(250, 1), "ppm")),
              Value("Quantity", Q(Rat(1, 8), "dimensionless")),
              Value("float", Q(Rat(1005, 1000), "dimensionless")),
              Value("str", Q(Rat(5, 1), "unknown"))}

\* Targets a caller names as to_unit
ToUnits ==
    {NoUnit, ToUnit("Unit", "percent", 0), ToUnit("str", "percent", 0),
     ToUnit("str", "ppm", 0), ToUnit("Unit", "ppm", 0), ToUnit("Quantity", "percent", 0),
     ToUnit("Unit", "dimensionless", 1), ToUnit("str", "unknown", 0),
     ToUnit("int", "dimensionless", 0)}

\* Values a caller gives as mag_round
Roundings == {<<>>, <<2>>}

\* parse(x, to_unit, mag_round)
CallParse(x, to_unit, mag_round) ==
    Called("parse", <<x, to_unit, mag_round>>, parse_to_unit(x, to_unit, mag_round))

\* Temperatures a caller passes: quantities in degC and kelvin on, next to
\* and between the bounds of the methods, the temperatures at which a formula
\* divides by zero, bare numbers, strings, None and a quantity that is no
\* temperature
Temperatures ==
    {Value("Quantity", Q(Rat(t, 1000), "degC")) :
        t \in {-273150, -257140, -243040, -237300, -233426, -1000, -1, 0, 1, 25000,
               75000, 75001, 100000, 100001, 150000, 373946, 373947}}
        \cup {Value("Quantity", Q(Rat(647096, 1000), "kelvin")),
              Value("Quantity", Q(Rat(300, 1), "kelvin")),
              Value("Quantity", Q(Rat(5, 1), "percent")),
              Value("int", Q(Rat(-1, 1), "dimensionless")),
              Value("float", Q(Rat(25, 1), "dimensionless")),
              Value("float", Q(Rat(120, 1), "dimensionless")),
              Value("str", Q(Rat(-1, 1), "degC")),
              Value("str", Q(Rat(5, 1), "unknown")),
              Value("NoneType", NoQuantity)}

\* water_vp_sat_<method>(temperature)
CallWaterVpSat(method, temperature) ==
    CalledWarning("water_vp_sat", <<method, temperature>>, water_vp_sat(method, temperature))

\* A temperature and a water_vp_method whose pressure at it is known
HumidityCases ==
    {<<Value("Quantity", Q(Rat(-25, 1), "degC")), "None">>,
     <<Value("Quantity", Q(Rat(-50, 1), "degC")), "None">>,
     <<Value("Quantity", Q(Rat(300, 1), "kelvin")), "callable">>,
     <<Value("float", Q(Rat(-25, 1), "dimensionless")), "callable">>}

\* Relative humidities a caller passes
RelativeHumidities ==
    {Value("Quantity", Q(Rat(100, 1), "percent")),
     Value("str", Q(Rat(100, 1), "percent")),
     Value("Quantity", Q(Rat(50, 1), "percent")),
     Value("float", Q(One, "dimensionless")),
     Value("Quantity", Q(Rat(1, 2), "dimensionless")),
     Value("Quantity", Q(Rat(30, 1), "degC")),
     Value("NoneType", NoQuantity)}

\* P_sat / (R_water * T[K]) in g/m^3 at the temperature and method of case
SaturationDensity(case) ==
    RDiv(Pascals(water_vp_method_of(case[2], case[1]).result.val),
         RMul(WATER_GAS_CONSTANT, m_as_degK(parse_to_unit(case[1], degC, <<>>).val)))

\* Absolute humidities a caller passes at the temperature and method of case:
\* the saturation density, half of it and a hundred times it, and a bare 20
AbsoluteHumidities(case) ==
    {Value("Quantity", Q(RMul(k, SaturationDensity(case)), "g/m^3")) :
        k \in {One, Rat(1, 2), Rat(100, 1)}}
        \cup {Value("float", Q(Rat(20, 1), "dimensionless")),
              Value("Quantity", Q(Rat(5, 1), "percent"))}

\* relative_to_absolute(relative_humidity, temperature, water_vp_method)
CallRelativeToAbsolute(relative_humidity, case) ==
    CalledWarning("relative_to_absolute", <<relative_humidity, case[1], case[2]>>,
                  relative_to_absolute(relative_humidity, case[1], case[2]))

\* absolute_to_relative(absolute_humidity, temperature, water_vp_method)
CallAbsoluteToRelative(absolute_humidity, case) ==
    CalledWarning("absolute_to_relative", <<absolute_humidity, case[1], case[2]>>,
                  absolute_to_relative(absolute_humidity, case[1], case[2]))

\* Mixtures a caller holds: the empty one, and those of one or two parts
Mixtures ==
    {Mixture(content, "None").val : content \in Contents \cup {<<>>}}

\* Operands of + that are of the library
Operands ==
    {AsConcentration(c) : c \in Concentrations} \cup {AsMixture(mixture) : mixture \in Mixtures}

\* Operands of + that are not
Foreigners == {AsForeign("int"), AsForeign("str"), AsForeign("NoneType")}

\* a + b
CallPlus(a, b) == Called("+", <<a, b>>, Plus(a, b))

MixtureMethods == {"Mixture.gcf", "Mixture.total", "Mixture.normalise"}

\* self.gcf, self.total, self.normalise()
CallMixtureMethod(method, self) ==
    Called(method, <<self>>,
           CASE method = "Mixture.gcf" -> gcf(self)
             [] method = "Mixture.total" -> Ok(total(self))
             [] method = "Mixture.normalise" -> normalise(self))

NextCalls ==
    \/ \E compound \in Compounds, x \in Scalars : CallCompoundMul(compound, x)
    \/ \E compound \in Compounds, x \in Scalars : CallCompoundTruediv(compound, x)
    \/ \E c \in Concentrations, k \in Factors : CallConcentrationMul(c, k)
    \/ \E c \in Concentrations, k \in Factors : CallConcentrationTruediv(c, k)
    \/ \E c \in Concentrations, k \in Factors : CallMulThenTruediv(c, k)
    \/ \E c \in Concentrations, x \in Comparands : CallConcentrationEq(c, x)
    \/ \E compound \in Keys, x \in Comparands \cup {Value("Compound", k) : k \in Keys} :
            CallCompoundEq(compound, x)
    \/ \E stored \in Keys, key \in Keys : CallDictGet(stored, key)
    \/ \E a \in Keys, b \in Keys : CallCompoundCompare(a, b)
    \/ \E q \in Quantities : CallToCompact(q)
    \/ \E q \in Quantities : CallToCompactTwice(q)
    \/ \E content \in ComponentTuples, balance \in {nitrogen, oxygen} :
            CallAutoBalance(content, balance)
    \/ \E x \in Supplied, compound \in InputCompounds : CallCompoundConcentration(x, compound)
    \/ \E content \in Contents : CallMixture(content)
    \/ \E x \in ParseValues, to_unit \in ToUnits, mag_round \in Roundings :
            CallParse(x, to_unit, mag_round)
    \/ \E rel \in Orderings, c \in Concentrations \cup OrderedConcentrations,
          x \in Comparands \cup {Value("CompoundConcentration", d) : d \in OrderedConcentrations} :
            CallConcentrationOrdered(rel, c, x)
    \/ \E a \in Operands, b \in Operands \cup Foreigners : CallPlus(a, b)
    \/ \E a \in Foreigners, b \in Operands : CallPlus(a, b)
    \/ \E method \in MixtureMethods, self \in Mixtures : CallMixtureMethod(method, self)
    \/ \E method \in Methods, temperature \in Temperatures :
            CallWaterVpSat(method, temperature)
    \/ \E relative_humidity \in RelativeHumidities, case \in HumidityCases :
            CallRelativeToAbsolute(relative_humidity, case)
    \/ \E case \in HumidityCases : \E absolute_humidity \in AbsoluteHumidities(case) :
            CallAbsoluteToRelative(absolute_humidity, case)

SpecCalls == Init /\ [][NextCalls]_vars

(***************************************************************************)
(* A caller that works on the objects of the heap: every operand is an      *)
(* object there is, the air mixture and the registry compounds included.    *)
(***************************************************************************)
\* An operation on objects: its name, its operands, and the heap and the
\* object or exception r it left
Operated(name, arguments, r) ==
    /\ Len(heap) < MaxObjects
    /\ call' = name
    /\ inp' = arguments
    /\ out' = IF r.err = "none" THEN Ok(r.ref) ELSE Raise(r.err)
    /\ warned' = <<>>
    /\ heap' = r.h
    /\ UNCHANGED mixtures

\* Scalars a caller multiplies and divides by
ObjectFactors ==
    {Value("int", Q(Rat(2, 1), "dimensionless")),
     Value("float", Q(Rat(1, 2), "dimensionless")),
     Value("int", Q(Zero, "dimensionless")),
     Value("float", Q(Rat(-1, 1), "dimensionless"))}

\* k * compound
MulCompoundObject(compound, k) ==
    Operated("k * compound", <<compound, k>>, compound_mul_on(heap, compound, k))

\* c * k
MulObject(c, k) == Operated("c * k", <<c, k>>, mul_on(heap, c, k))

\* c / k
TruedivObject(c, k) == Operated("c / k", <<c, k>>, truediv_on(heap, c, k))

\* a + b
AddObjects(a, b) == Operated("a + b", <<a, b>>, add_on(heap, a, b))

\* mixture.normalise()
NormaliseObject(mixture) ==
    Operated("normalise", <<mixture>>, normalise_on(heap, mixture))

\* Mixture.auto_balance(*content, balance=balance)
AutoBalanceObjects(content, balance) ==
    Operated("auto_balance", <<content, balance>>,
             auto_balance_on(heap, content, balance, "None"))

\* The tuples of at most MaxParts parts, and at most two, among the objects cs
TuplesOf(cs) ==
    {<<>>} \cup {<<c>> : c \in cs}
          \cup (IF MaxParts >= 2 THEN {<<c, d>> : c \in cs, d \in cs} ELSE {})

NextObjects ==
    \/ \E compound \in ObjectsOf(heap, "Compound"), k \in ObjectFactors :
            MulCompoundObject(compound, k)
    \/ \E c \in ObjectsOf(heap, "CompoundConcentration"), k \in ObjectFactors :
            MulObject(c, k)
    \/ \E c \in ObjectsOf(heap, "CompoundConcentration"), k \in ObjectFactors :
            TruedivObject(c, k)
    \/ \E a, b \in ObjectsOf(heap, "CompoundConcentration") \cup ObjectsOf(heap, "Mixture") :
            AddObjects(a, b)
    \/ \E mixture \in ObjectsOf(heap, "Mixture") : NormaliseObject(mixture)
    \/ \E content \in TuplesOf(ObjectsOf(heap, "CompoundConcentration")),
          balance \in ObjectsOf(heap, "Compound") :
            AutoBalanceObjects(content, balance)

SpecObjects == Init /\ [][NextObjects]_vars

(***************************************************************************)
(* Properties of Mixture and CompoundConcentration                          *)
(***************************************************************************)
\* The operations that return a Mixture
MixtureOps == {"Mixture", "+", "normalise", "auto_balance"}

\* The last operation returned a Mixture, which is now m
Returned == op \in MixtureOps /\ err = "none"

\* The dimensionless concentration of a part
Fraction(part) == m_as_dimensionless(part.concentration)

RECURSIVE SumAll(_)
\* The sum of the concentrations of a sequence of parts
SumAll(parts) ==
    IF parts = <<>> THEN Zero ELSE RAdd(Fraction(Head(parts)), SumAll(Tail(parts)))

\* The names of the compounds of a sequence of parts
Names(parts) == {parts[i].compound.name : i \in DOMAIN parts}

\* The parts of a sequence that are of the named compound
Of(parts, name) == SelectSeq(parts, LAMBDA part : part.compound.name = name)

\* The parts that reached the constructor of Mixture in the last operation, as
\* <<compound name, concentration>>: auto_balance appends the balance,
\* normalise divides the parts of the mixture by its total
GivenParts ==
    IF op = "auto_balance"
    THEN [i \in DOMAIN supplied |-> <<supplied[i].compound.name, Fraction(supplied[i])>>]
             \o <<<<bal[1].name, RSub(One, SumAll(supplied))>>>>
    ELSE IF op = "normalise"
    THEN [i \in DOMAIN supplied |->
            <<supplied[i].compound.name, RDiv(Fraction(supplied[i]), SumAll(supplied))>>]
    ELSE [i \in DOMAIN supplied |-> <<supplied[i].compound.name, Fraction(supplied[i])>>]

RECURSIVE GivenSum(_, _)
\* The sum of the given concentrations of the named compound
GivenSum(given_parts, name) ==
    IF given_parts = <<>>
    THEN Zero
    ELSE RAdd(IF Head(given_parts)[1] = name THEN Head(given_parts)[2] ELSE Zero,
              GivenSum(Tail(given_parts), name))

\* C1: after construction, +, normalise or auto_balance the content of the
\* Mixture holds exactly one CompoundConcentration per distinct compound (by
\* name) among the parts given, and its concentration is the sum of the
\* concentrations of the given parts of that compound.
C1_OneEntryPerCompound ==
    Returned =>
        /\ \A i, j \in DOMAIN m.content :
              m.content[i].compound.name = m.content[j].compound.name => i = j
        /\ Names(m.content) = {GivenParts[i][1] : i \in DOMAIN GivenParts}
        /\ \A i \in DOMAIN m.content :
              Fraction(m.content[i]) = GivenSum(GivenParts, m.content[i].compound.name)

\* Parts of one compound were merged into a mixture of several compounds
C1_Witness ==
    /\ Returned
    /\ op = "+"
    /\ Len(m.content) >= 2
    /\ \E i, j \in DOMAIN supplied :
          i # j /\ supplied[i].compound.name = supplied[j].compound.name

\* The sort key (order, name) of a is below that of b
KeyBefore(a, b) ==
    \/ a.order < b.order
    \/ a.order = b.order /\ NameRank(a.name) < NameRank(b.name)

\* A content is in ascending order of (order, name)
Ascending(content) ==
    \A i, j \in DOMAIN content :
        i < j => KeyBefore(content[i].compound, content[j].compound)

MixtureEq(a, b) ==
    /\ Len(a.content) = Len(b.content)
    /\ \A i \in DOMAIN a.content : ConcentrationEq(a.content[i], b.content[i])
    /\ a.name = b.name

\* C3: A + B == B + A for all operands that are CompoundConcentrations or
\* Mixtures.
C3_AdditionCommutes ==
    (op = "+" /\ err = "none") => (rev.err = "none" /\ MixtureEq(m, rev.val))

\* auto_balance was called with components that sum to at most 1 and a balance
\* compound that is not among them
BalanceCase ==
    /\ op = "auto_balance"
    /\ RLe(SumAll(supplied), One)
    /\ bal[1].name \notin Names(supplied)

\* The part of the current mixture that holds the balance compound, at 1 - s
HoldsBalance ==
    \E j \in DOMAIN m.content :
        /\ m.content[j].compound = bal[1]
        /\ Fraction(m.content[j]) = RSub(One, SumAll(supplied))

\* C4 as stated: for components that sum to s <= 1 and a balance compound B not
\* among them, auto_balance returns a Mixture that contains every supplied
\* component unchanged plus B at exactly 1 - s, and whose total is 1.
C4_EveryComponentUnchanged ==
    BalanceCase =>
        /\ err = "none"
        /\ \A i \in DOMAIN supplied :
              \E j \in DOMAIN m.content : ConcentrationEq(m.content[j], supplied[i])
        /\ HoldsBalance
        /\ SumAll(m.content) = One

\* C4, amended: for components that sum to s <= 1 and a balance compound B not
\* among them, auto_balance returns a Mixture with one part per compound of
\* the components, holding the sum of that compound's supplied concentrations
\* (so a component whose compound is supplied once is unchanged), plus B at
\* exactly 1 - s, and whose total is 1.
C4_AutoBalance ==
    BalanceCase =>
        /\ err = "none"
        /\ Names(m.content) = Names(supplied) \cup {bal[1].name}
        /\ Len(m.content) = Cardinality(Names(m.content))
        /\ \A j \in DOMAIN m.content :
              m.content[j].compound.name # bal[1].name =>
                  Fraction(m.content[j]) =
                      SumAll(Of(supplied, m.content[j].compound.name))
        /\ \A i \in DOMAIN supplied :
              Len(Of(supplied, supplied[i].compound.name)) = 1 =>
                  \E j \in DOMAIN m.content : ConcentrationEq(m.content[j], supplied[i])
        /\ HoldsBalance
        /\ SumAll(m.content) = One

\* auto_balance balanced two components of one compound that sum to less than 1
C4_Witness ==
    /\ BalanceCase
    /\ err = "none"
    /\ Len(supplied) = 2
    /\ supplied[1].compound.name = supplied[2].compound.name
    /\ RLt(SumAll(supplied), One)
    /\ Len(m.content) = 2

\* auto_balance was called with components that sum to more than 1
Overfull == op = "auto_balance" /\ RLt(One, SumAll(supplied))

\* C5 as stated: auto_balance raises no error when the components sum to more
\* than 1 and returns a Mixture that includes the balance component with the
\* negative remainder 1 - sum.
C5_NegativeBalanceReturned == Overfull => (err = "none" /\ HoldsBalance)

\* C5, amended: when the components sum to more than 1, auto_balance raises
\* ValueError and returns no Mixture.
C5_NegativeBalanceRaises == Overfull => (err = "ValueError" /\ m = prev)

\* auto_balance raised ValueError for two components that sum to more than 1
C5_Witness == Overfull /\ err = "ValueError" /\ Len(supplied) = 2

\* Every CompoundConcentration that exists: those the caller holds and the
\* parts of the mixtures
Existing ==
    {args[i] : i \in DOMAIN args}
        \cup {m.content[i] : i \in DOMAIN m.content}
        \cup (IF op = "+" /\ rev.err = "none"
              THEN {rev.val.content[i] : i \in DOMAIN rev.val.content}
              ELSE {})

\* The quantity the last creating operation handed to the constructor, as
\* <<>> when it handed none
Intended ==
    IF op = "CompoundConcentration"
    THEN IF parse(given[1]).err = "none" THEN <<parse(given[1]).val>> ELSE <<>>
    ELSE IF op = "Compound.__mul__"
    THEN IF IsScalar(given[1]) THEN <<given[1].q>> ELSE <<>>
    ELSE IF op = "CompoundConcentration.__mul__"
    THEN IF IsScalar(given[1])
         THEN <<QMul(given[1].q, operand[1].concentration)>> ELSE <<>>
    ELSE IF op = "CompoundConcentration.__truediv__"
    THEN IF IsScalar(given[1]) /\ given[1].q.mag # Zero
         THEN <<QDiv(operand[1].concentration, given[1].q)>> ELSE <<>>
    ELSE <<>>

\* A dimensionless quantity is below zero
Negative(q) == q.len = 0 /\ RLt(RMul(q.mag, UnitFactor(q.unit)), Zero)

\* C6: every CompoundConcentration that exists has a dimensionless
\* concentration >= 0; the constructor, Compound * scalar and the scalar
\* multiply and divide of a concentration raise ValueError, and yield no
\* object, when the value is negative or its units are not dimensionless.
C6_ConcentrationValid ==
    /\ \A c \in Existing : c.concentration.len = 0 /\ RLe(Zero, Fraction(c))
    /\ Intended # <<>> /\ (Intended[1].len # 0 \/ Negative(Intended[1]))
          => err = "ValueError"

\* A multiply or divide of an existing concentration of 0.75 by a length was
\* refused
C6_Witness ==
    /\ op \in {"CompoundConcentration.__mul__", "CompoundConcentration.__truediv__"}
    /\ err = "ValueError"
    /\ Intended # <<>>
    /\ Intended[1].len # 0
    /\ \E c \in Existing : Fraction(c) = Rat(3, 4)

\* abs(x) <= 1e-12 for a rational x (1e12 = 1e6 * 1e6)
Within1e12(x) ==
    \/ x.n = 0
    \/ ((x.d \div Abs(x.n)) \div 1000000) >= 1000000

\* C7 as stated: the concentrations of every Mixture built by the constructor,
\* by +, by normalise or by auto_balance sum to 1.0 within 1e-12.
C7_EveryMixtureSumsToOne ==
    Returned => Within1e12(RSub(SumAll(m.content), One))

\* C7, amended: the concentrations of a Mixture returned by auto_balance, and
\* of a Mixture with parts returned by normalise, sum to 1; those of a Mixture
\* built by the constructor or by + sum to the sum of the parts given.
C7_SumOfMixture ==
    /\ (Returned /\ op = "auto_balance") => SumAll(m.content) = One
    /\ (Returned /\ op = "normalise" /\ m.content # <<>>) => SumAll(m.content) = One
    /\ (Returned /\ op \in {"Mixture", "+"}) => SumAll(m.content) = SumAll(supplied)

\* normalise returned a mixture of two parts from one that did not sum to 1
C7_Witness ==
    /\ Returned
    /\ op = "normalise"
    /\ Len(m.content) >= 2
    /\ SumAll(prev.content) # One

\* The current mixture holds the parts of the one before, each divided by the
\* total of the one before, under the same name
Normalised ==
    /\ m.name = prev.name
    /\ Len(m.content) = Len(prev.content)
    /\ \A i \in DOMAIN m.content :
          /\ m.content[i].compound = prev.content[i].compound
          /\ Fraction(m.content[i]) =
                 RDiv(Fraction(prev.content[i]), SumAll(prev.content))

C9_NormaliseIdempotent ==
    (Returned /\ op = "normalise")
        => (normalise(m).err = "none" /\ MixtureEq(normalise(m).val, m))

\* normalise returned a mixture of two parts that differs from the one before
C9_Witness ==
    /\ Returned
    /\ op = "normalise"
    /\ Len(m.content) = 2
    /\ ~MixtureEq(m, prev)

\* The compound of a part lacks molecular_structure, density or specific_heat
Lacking(part) ==
    \/ part.compound.molecular_structure = <<>>
    \/ part.compound.density = <<>>
    \/ part.compound.specific_heat = <<>>

\* C10: Mixture.gcf raises ValueError exactly when the compound of at least
\* one component lacks molecular_structure, density or specific_heat, whatever
\* that component's concentration; the error names every such component and
\* no others, and no value is returned.
C10_GcfMissingData ==
    op = "gcf" =>
        /\ err = "ValueError" <=> \E i \in DOMAIN m.content : Lacking(m.content[i])
        /\ err = "ValueError" =>
              /\ "val" \notin DOMAIN res
              /\ \A i \in DOMAIN m.content :
                    Lacking(m.content[i]) <=>
                        \E k \in DOMAIN res.missing : res.missing[k] = m.content[i]

\* gcf raised ValueError naming a component at concentration 0 of a mixture
\* whose other components have data
C10_Witness ==
    /\ op = "gcf"
    /\ err = "ValueError"
    /\ Len(m.content) >= 3
    /\ \E k \in DOMAIN res.missing : Fraction(res.missing[k]) = Zero

RECURSIVE BigLess(_, _)
\* x < y for two naturals in digits
BigLess(x, y) ==
    IF Len(x) # Len(y) THEN Len(x) < Len(y)
    ELSE IF x = <<>> THEN FALSE
    ELSE IF x[Len(x)] # y[Len(y)] THEN x[Len(x)] < y[Len(y)]
    ELSE BigLess(SubSeq(x, 1, Len(x) - 1), SubSeq(y, 1, Len(y) - 1))

\* Two fractions of naturals in digits denote the same number
SameRatio(a, b) == BigMul(a.num, b.den) = BigMul(b.num, a.den)

\* The fraction a is 1.0 to 2 decimal places: abs(a - 1) < 0.005
OneToTwoPlaces(a) ==
    /\ BigLess(BigMul(BigFromInt(199), a.den), BigMul(BigFromInt(200), a.num))
    /\ BigLess(BigMul(BigFromInt(200), a.num), BigMul(BigFromInt(201), a.den))

RECURSIVE WeightedStructure(_, _)
\* SUM(c_i * structure_i) counted from the first part, c_i in units of 1/l
WeightedStructure(parts, l) ==
    IF parts = <<>>
    THEN <<>>
    ELSE BigAdd(BigProduct(Fraction(Head(parts)).n * (l \div Fraction(Head(parts)).d),
                           Head(parts).compound.molecular_structure[1]),
                WeightedStructure(Tail(parts), l))

RECURSIVE WeightedHeat(_, _)
\* SUM(c_i * density_i * specific_heat_i) counted from the first part
WeightedHeat(parts, l) ==
    IF parts = <<>>
    THEN <<>>
    ELSE BigAdd(BigMul(BigProduct(Head(parts).compound.density[1],
                                  Head(parts).compound.specific_heat[1]),
                       BigFromInt(Fraction(Head(parts)).n * (l \div Fraction(Head(parts)).d))),
                WeightedHeat(Tail(parts), l))

RECURSIVE CommonDenominator(_)
\* The least common denominator of the concentrations of a sequence of parts
CommonDenominator(parts) ==
    IF parts = <<>> THEN 1 ELSE Lcm(Fraction(Head(parts)).d, CommonDenominator(Tail(parts)))

\* gcf was taken of a mixture whose components all have the three constants
\* and do not all have concentration 0
GcfCase ==
    /\ op = "gcf"
    /\ \A i \in DOMAIN m.content : ~Lacking(m.content[i])
    /\ RLt(Zero, SumAll(m.content))

\* C11: when every component has all three constants, Mixture.gcf equals
\* 0.3106 * SUM(c_i * structure_i) / SUM(c_i * density_i * specific_heat_i);
\* for a mixture of a single compound this is that Compound's own gcf whatever
\* the positive concentration, and for air it is 1.0 to 2 decimal places.
C11_GcfFormula ==
    GcfCase =>
        /\ err = "none"
        /\ SameRatio(res.val,
                     [num |-> BigMul(BigFromInt(31060),
                                     WeightedStructure(m.content,
                                                       CommonDenominator(m.content))),
                      den |-> WeightedHeat(m.content, CommonDenominator(m.content))])
        /\ Len(m.content) = 1 => SameRatio(res.val, CompoundGcf(m.content[1].compound))
        /\ m = air => OneToTwoPlaces(res.val)

\* gcf was taken of a mixture of one compound at a concentration other than 1
C11_Witness ==
    /\ GcfCase
    /\ err = "none"
    /\ Len(m.content) = 1
    /\ Fraction(m.content[1]) # One

\* The argument of the last call is a number, a string or a quantity
ScalarGiven == inp[2].type \in {"int", "float", "str", "Quantity"}

\* The last call multiplied or divided a Compound or a CompoundConcentration
Arithmetic ==
    call \in {"Compound.__mul__", "Compound.__truediv__", "(c * k) / k",
              "CompoundConcentration.__mul__", "CompoundConcentration.__truediv__"}

ScaleCase ==
    /\ call \in {"CompoundConcentration.__mul__", "CompoundConcentration.__truediv__",
                 "(c * k) / k"}
    /\ inp[2].type \in {"int", "float", "Quantity"}
    /\ inp[2].q.len = 0

\* The scalar k of the last call, as a fraction
Factor == m_as_dimensionless(inp[2].q)

\* The last call returned a concentration of the compound of c denoting x
Gives(x) ==
    /\ out.err = "none"
    /\ out.val.compound = inp[1].compound
    /\ Fraction(out.val) = x

BelowZero == RLt(Factor, Zero) /\ Fraction(inp[1]) # Zero

Comparison == call \in {"CompoundConcentration.__eq__", "CompoundConcentration.__lt__"}

\* x is a bare number or a quantity
NumberGiven == inp[2].type \in {"int", "float", "Quantity"}

\* x is neither a number, a string, a quantity, a Compound nor a
\* CompoundConcentration
UnrelatedGiven == inp[2].type \in {"object", "NoneType"}

\* C14: comparing a CompoundConcentration with a bare number or quantity
\* (==, <, <=, >, >=) compares its concentration with that value (a quantity
\* of another dimension is unequal and cannot be ordered); an ordering
\* comparison against an unrelated type raises TypeError, while == against an
\* unrelated type is False rather than an error.
C14_CompareWithScalar ==
    Comparison =>
        /\ (NumberGiven /\ inp[2].q.len = 0) =>
              out = Ok(IF inp[3] = "==" THEN Fraction(inp[1]) = m_as_dimensionless(inp[2].q)
                       ELSE Ordered(inp[3], Fraction(inp[1]), m_as_dimensionless(inp[2].q)))
        /\ (NumberGiven /\ inp[2].q.len # 0) =>
              out = IF inp[3] = "==" THEN Ok(FALSE) ELSE Raise("DimensionalityError")
        /\ UnrelatedGiven =>
              out = IF inp[3] = "==" THEN Ok(FALSE) ELSE Raise("TypeError")

\* A concentration of 25 percent was found equal to the bare number 0.25
C14_Witness ==
    /\ call = "CompoundConcentration.__eq__"
    /\ inp[1].concentration = Q(Rat(25, 1), "percent")
    /\ inp[2] = Value("float", Q(Rat(1, 4), "dimensionless"))
    /\ out = Ok(TRUE)

\* Two compounds differ in a field other than the name
DifferBesidesName(a, b) ==
    /\ a.symbol # b.symbol
    /\ a.molecular_structure # b.molecular_structure
    /\ a.specific_heat # b.specific_heat
    /\ a.density # b.density
    /\ a.order # b.order
    /\ a.alias # b.alias
    /\ a.analyte # b.analyte

\* C15: two Compounds are equal if and only if their names are equal,
\* irrespective of symbol, aliases, physical constants, analyte flag and order;
\* equal Compounds have equal hashes, so a freshly built Compound('Oxygen') is
\* the same dictionary key as the registry's oxygen.
C15_CompoundEqualByName ==
    /\ (call = "Compound.__eq__" /\ inp[2].type = "Compound") =>
          /\ out = Ok(inp[1].name = inp[2].q.name)
          /\ out = Ok(TRUE) => CompoundHash(inp[1]) = CompoundHash(inp[2].q)
    /\ call = "dict.__getitem__" =>
          out = IF inp[1].name = inp[2].name THEN Ok("value") ELSE Raise("KeyError")

\* The value stored under the registry's oxygen was found under a Compound
\* built from the name 'Oxygen' and an alias
C15_Witness ==
    /\ call = "dict.__getitem__"
    /\ inp[1] = oxygen
    /\ inp[2].name = "Oxygen"
    /\ DifferBesidesName(inp[1], inp[2])
    /\ out = Ok("value")

\* The last call compacted a quantity in percent, ppm or ppb
CompactCase ==
    /\ call = "Quantity.to_compact"
    /\ inp[1].len = 0
    /\ inp[1].unit \in {"percent", "ppm", "ppb"}

\* C16: for every quantity in percent, ppm or ppb, to_compact() returns a
\* quantity that denotes exactly the same dimensionless fraction as its input;
\* only the unit and the displayed magnitude change.
C16_CompactKeepsFraction ==
    CompactCase =>
        /\ out.err = "none"
        /\ out.val.len = 0
        /\ out.val.unit \in {"percent", "ppm", "ppb"}
        /\ m_as_dimensionless(out.val) = m_as_dimensionless(inp[1])

\* 1,000,000 ppb became 0.1 %
C16_Witness ==
    /\ CompactCase
    /\ inp[1] = Q(Rat(1000000, 1), "ppb")
    /\ out = Ok(Q(Rat(1, 10), "percent"))

\* What the four rules give in their order for x in percent
FromPercent(x) ==
    IF RLe(Rat(1, 10), x) THEN Q(x, "percent")
    ELSE IF RLe(Rat(1, 10000), x) THEN Q(RMul(x, Rat(10000, 1)), "ppm")
    ELSE Q(RMul(x, Rat(10000000, 1)), "ppb")

\* What the four rules give in their order for x in ppm
FromPpm(x) ==
    IF RLt(x, One) THEN Q(RMul(x, Rat(1000, 1)), "ppb")
    ELSE IF RLt(x, Rat(1000, 1)) THEN Q(x, "ppm")
    ELSE Q(RDiv(x, Rat(10000, 1)), "percent")

\* What the four rules give in their order for x in ppb
FromPpb(x) ==
    IF RLt(x, Rat(1000, 1)) THEN Q(x, "ppb")
    ELSE IF RLt(x, Rat(1000000, 1)) THEN Q(RDiv(x, Rat(1000, 1)), "ppm")
    ELSE Q(RDiv(x, Rat(10000000, 1)), "percent")

\* C17: to_compact() on a percent/ppm/ppb quantity applies the four rescale
\* rules in the fixed order percent < 0.1 -> ppm (x10000), ppm < 1.0 -> ppb
\* (x1000), ppb >= 1000 -> ppm (/1000), ppm >= 1000 -> percent (/10000) within
\* one call, so a value can cross two units at once, while percent magnitudes
\* >= 0.1, however large, stay in percent.
C17_CompactRules ==
    CompactCase =>
        out = Ok(CASE inp[1].unit = "percent" -> FromPercent(inp[1].mag)
                   [] inp[1].unit = "ppm" -> FromPpm(inp[1].mag)
                   [] inp[1].unit = "ppb" -> FromPpb(inp[1].mag))

\* 0.0000001 % crossed two units and became 1 ppb
C17_Witness ==
    /\ CompactCase
    /\ inp[1] = Q(Rat(1, 10000000), "percent")
    /\ out = Ok(Q(One, "ppb"))

\* The last call constructed a CompoundConcentration from the value inp[2]
ConstructedCase == call \in {"CompoundConcentration", "Compound.__mul__"} /\ out.err = "none"

\* The last call built a Mixture from the concentrations inp[1]
MixtureCase == call = "Mixture" /\ out.err = "none"

\* q is in percent, ppm or ppb
InDisplayUnit(q) == q.len = 0 /\ q.unit \in {"percent", "ppm", "ppb"}

\* q is in the display unit that suits its magnitude
Compact(q) ==
    /\ InDisplayUnit(q)
    /\ q.unit = "percent" => RLe(Rat(1, 10), q.mag)
    /\ q.unit = "ppm" => (RLe(One, q.mag) /\ RLt(q.mag, Rat(1000, 1)))
    /\ q.unit = "ppb" => RLt(q.mag, Rat(1000, 1))

\* The concentrations of inp[1] that are of the compound of a part, summed
GivenFor(part) ==
    SumAll(SelectSeq(inp[1], LAMBDA g : CompoundEq(g.compound, part.compound)))

\* C18 as stated: the concentration stored in a constructed
\* CompoundConcentration is in percent, ppm or ppb and denotes the same
\* fraction as the value supplied, whether that was a bare number, a string or
\* a quantity, and also for the entries a Mixture builds.
C18_StoredInDisplayUnit ==
    /\ ConstructedCase =>
          /\ InDisplayUnit(out.val.concentration)
          /\ Fraction(out.val) = m_as_dimensionless(inp[2].q)
    /\ MixtureCase =>
          \A i \in DOMAIN out.val.content :
              /\ InDisplayUnit(out.val.content[i].concentration)
              /\ Fraction(out.val.content[i]) = GivenFor(out.val.content[i])

\* C18: the concentration stored in a constructed CompoundConcentration
\* denotes the same fraction as the value supplied; a value supplied in
\* percent, ppm or ppb is stored in the one of these units that suits its
\* magnitude, while a bare number, a string or quantity without a unit, and
\* every entry a Mixture builds, is stored in plain dimensionless units.
C18_StoredConcentration ==
    /\ ConstructedCase =>
          /\ Fraction(out.val) = m_as_dimensionless(inp[2].q)
          /\ IF inp[2].q.unit = "dimensionless"
             THEN out.val.concentration = inp[2].q
             ELSE Compact(out.val.concentration)
    /\ MixtureCase =>
          \A i \in DOMAIN out.val.content :
              /\ out.val.content[i].concentration.unit = "dimensionless"
              /\ out.val.content[i].concentration.len = 0
              /\ Fraction(out.val.content[i]) = GivenFor(out.val.content[i])

\* A concentration supplied as 0.0001 % was stored as 1 ppm
C18_Witness ==
    /\ ConstructedCase
    /\ call = "CompoundConcentration"
    /\ inp[2].q = Q(Rat(1, 10000), "percent")
    /\ out.val.concentration = Q(One, "ppm")

\* The value given to the last call of parse is None or of a type other than
\* number, string or quantity
Unparsable == inp[1].type \notin {"int", "float", "str", "Quantity"}

\* C19 as stated: parse(value, target_unit, round_to) raises ParseError
\* whenever value is None or is of a type other than number, string or
\* quantity, whatever target_unit and round_to are.
C19_UnsupportedAlwaysParseError ==
    (call = "parse" /\ Unparsable) => out = Raise("ParseError")

\* The target unit of the last call of parse is a string that does not resolve
Unresolved == inp[2].type = "str" /\ inp[2].unit = "unknown"

\* C19: parse(value, target_unit, round_to) raises ParseError whenever value is
\* None, whatever target_unit and round_to are; for a value of a type other
\* than number, string or quantity it raises ParseError unless target_unit is
\* a string that does not resolve, which raises UnknownUnit first.
C19_UnsupportedValue ==
    (call = "parse" /\ Unparsable) =>
        out = IF inp[1].type # "NoneType" /\ Unresolved
              THEN Raise("UnknownUnit")
              ELSE Raise("ParseError")

\* None was parsed with a target unit that does not resolve and a rounding
C19_Witness ==
    /\ call = "parse"
    /\ inp[1].type = "NoneType"
    /\ Unresolved
    /\ inp[3] = <<2>>
    /\ out = Raise("ParseError")

\* The last call parsed a number, a string the registry reads or a quantity
\* into a target unit that resolves, without rounding
TargetCase ==
    /\ call = "parse"
    /\ ~Unparsable
    /\ ~undefined_unit(inp[1])
    /\ inp[2].type \in {"Unit", "Quantity"} \/ (inp[2].type = "str" /\ ~Unresolved)
    /\ inp[3] = <<>>

\* The quantity of magnitude x in the target unit of the last call
InTarget(x) == [mag |-> x, unit |-> inp[2].unit, len |-> inp[2].len]

\* C20 as stated: whenever the parsed value is dimensionless (a bare number, a
\* numeric string, or a quantity in percent, ppm or ppb), the result is a
\* quantity in target_unit whose magnitude is the value's dimensionless
\* magnitude, without error; only a dimensioned value is converted and can
\* fail as incompatible.
C20_DimensionlessReinterpreted ==
    (TargetCase /\ inp[1].q.len = 0) => out = Ok(InTarget(m_as_dimensionless(inp[1].q)))

\* C20: whenever the parsed value has no unit (a bare number, a numeric string,
\* a unit-free quantity), the result is a quantity in target_unit whose
\* magnitude is the value's magnitude, without error; a value that carries a
\* unit, percent, ppm and ppb included, is converted: the result denotes the
\* same quantity in target_unit, or IncompatibleUnits is raised when the
\* dimensions differ.
C20_ParseToUnit ==
    TargetCase =>
        IF inp[1].q.unit = "dimensionless" /\ inp[1].q.len = 0
        THEN out = Ok(InTarget(inp[1].q.mag))
        ELSE IF inp[1].q.len # inp[2].len
        THEN out = Raise("IncompatibleUnits")
        ELSE out = Ok(InTarget(RDiv(m_as_dimensionless(inp[1].q), UnitFactor(inp[2].unit))))

\* The bare number 0.75 was read as 0.75 percent
C20_Witness ==
    /\ TargetCase
    /\ inp[1] = Value("float", Q(Rat(3, 4), "dimensionless"))
    /\ inp[2].unit = "percent"
    /\ out = Ok(Q(Rat(3, 4), "percent"))

\* The value of the last call of parse is a string with a unit token that
\* does not resolve, such as "5 foo"
UnresolvedValue == undefined_unit(inp[1])

\* C21: parse of a value other than None raises UnknownUnit whenever a unit
\* token does not resolve in the unit registry, whether the token appears in
\* target_unit or inside the value string; no other exception kind is raised
\* for an unknown unit.
C21_UnknownUnit ==
    (call = "parse" /\ inp[1].type # "NoneType" /\ (Unresolved \/ UnresolvedValue)) =>
        out = Raise("UnknownUnit")

\* The last call was water_vp_sat_<method> with an argument that denotes a
\* temperature: a temperature quantity, a bare number or a string of one
Temperature ==
    /\ call = "water_vp_sat"
    /\ parse_to_unit(inp[2], degC, <<>>).err = "none"

\* That temperature in degC
Celsius == m_as_degC(parse_to_unit(inp[2], degC, <<>>).val)

\* The upper bound of a method in degC; 647.096 K is 373.946 degC
UpperBound(method) ==
    CASE method \in {"simple", "antoine"} -> Rat(373946, 1000)
      [] method = "magnus" -> Rat(100, 1)
      [] method \in {"tetens", "buck"} -> Rat(75, 1)

\* The temperature in degC at which the formula of a method divides by zero
Pole(method) ==
    CASE method = "simple" -> Rat(-27315, 100)
      [] method = "antoine" -> Rat(-233426, 1000)
      [] method = "magnus" -> Rat(-24304, 100)
      [] method = "tetens" -> Rat(-2373, 10)
      [] method = "buck" -> Rat(-25714, 100)

\* The warning due for the last call
Due ==
    IF inp[1] # "wagner_pruss"
       /\ (RLt(Celsius, Zero) \/ RLt(UpperBound(inp[1]), Celsius))
    THEN <<"TemperatureRangeWarning">>
    ELSE <<>>

\* The last call returned the pressure of its formula at that temperature
ReturnsPressure ==
    /\ out.err = "none"
    /\ out.val.formula = inp[1]
    /\ out.val.at = Celsius

Case == <<inp[2], inp[3]>>

\* C23: for any temperature T and saturation-pressure method,
\* relative_to_absolute(100 %, T) returns P_sat(T) / (R_water * T[K]) in g/m^3,
\* and absolute_to_relative of that absolute humidity at T returns a relative
\* humidity equal to 100 % (the dimensionless fraction 1).
C23_Saturation ==
    /\ (call = "relative_to_absolute" /\ inp[1] = Value("Quantity", Q(Rat(100, 1), "percent"))) =>
            out = Ok(Q(SaturationDensity(Case), "g/m^3"))
    /\ (call = "absolute_to_relative"
            /\ inp[1] = Value("Quantity", Q(SaturationDensity(Case), "g/m^3"))) =>
            out.err = "none" /\ m_as_dimensionless(out.val) = One

\* The exceptions of the documented taxonomy: the three of the unit layer,
\* pint's DimensionalityError, and the domain ValueError and TypeError
Taxonomy ==
    {"ParseError", "UnknownUnit", "IncompatibleUnits", "DimensionalityError",
     "ValueError", "TypeError"}

\* The calls of the public operations of the claim
PublicCalls ==
    {"parse", "Compound.__mul__", "Compound.__truediv__", "Compound.__eq__",
     "CompoundConcentration", "CompoundConcentration.__mul__",
     "CompoundConcentration.__truediv__", "(c * k) / k",
     "CompoundConcentration.__eq__", "CompoundConcentration.__lt__",
     "Mixture", "+", "Mixture.gcf", "Mixture.total", "Mixture.normalise"}

\* C24: every public operation (parse; Compound, CompoundConcentration and
\* Mixture arithmetic and comparison; Mixture.gcf, total and normalise) either
\* returns a value or raises an exception of the documented taxonomy, for all
\* inputs, an empty Mixture, a Mixture whose total is 0 and + with an operand
\* that is neither a CompoundConcentration nor a Mixture included; no other
\* exception kind escapes.
C24_OnlyTaxonomy ==
    call \in PublicCalls => out.err \in Taxonomy \cup {"none"}

(***************************************************************************)
(* C25: immutability.                                                       *)
(***************************************************************************)
\* The calls of a caller that works on objects
ObjectCalls == {"k * compound", "c * k", "c / k", "a + b", "normalise", "auto_balance"}

\* The compounds of the registry and the air mixture are as they were built
InitialContentKept == SubSeq(heap, 1, Len(InitialHeap)) = InitialHeap

\* C25: +, scalar * and /, normalise and auto_balance each return a new
\* object and leave every object there was, the operands among them,
\* unchanged; air and the compounds of the registry keep the content they
\* were built with.
C25_Immutable ==
    /\ [](InitialContentKept)
    /\ [][/\ Len(heap') >= Len(heap)
          /\ \A i \in DOMAIN heap : heap'[i] = heap[i]
          /\ (call' \in ObjectCalls /\ out'.err = "none")
                => (out'.val \notin DOMAIN heap /\ out'.val \in DOMAIN heap')]_vars

\* The air mixture was normalised: the result is a new Mixture of new
\* parts, and air and the registry are as they were built
C25_Witness ==
    /\ call = "normalise"
    /\ inp = <<Len(InitialHeap)>>
    /\ out.err = "none"
    /\ heap[out.val].class = "Mixture"
    /\ out.val > Len(InitialHeap) + 1
    /\ InitialContentKept

(***************************************************************************)
(* C26: parse, then range check.                                            *)
(***************************************************************************)
\* The temperature of the last call as the Quantity parse makes of it
ParsedTemperature == Value("Quantity", parse_to_unit(inp[2], degC, <<>>).val)

\* C26 as stated: each of the six water_vp_sat_<method> first parses the
\* temperature and then checks its range, so a bare number (read as degC), a
\* string and a Quantity are all accepted: the call does with them what it
\* does with the Quantity they parse to.
C26_ParsesFirst ==
    Temperature =>
        Outcome(out, warned) = water_vp_sat(inp[1], ParsedTemperature)

(***************************************************************************)
(* C27: the ordering of two concentrations.                                 *)
(***************************************************************************)
\* The last call ordered two CompoundConcentrations
OrderedCase ==
    /\ call = "CompoundConcentration.__lt__"
    /\ inp[2].type = "CompoundConcentration"

\* The (order, name) key of a compound
Key(compound) == <<compound.order, NameRank(compound.name)>>

\* x rel y for two keys, as Python orders tuples
KeyOrdered(rel, x, y) ==
    CASE rel = "<" -> x[1] < y[1] \/ (x[1] = y[1] /\ x[2] < y[2])
      [] rel = "<=" -> x[1] < y[1] \/ (x[1] = y[1] /\ x[2] <= y[2])
      [] rel = ">" -> x[1] > y[1] \/ (x[1] = y[1] /\ x[2] > y[2])
      [] rel = ">=" -> x[1] > y[1] \/ (x[1] = y[1] /\ x[2] >= y[2])

\* C27: <, <=, > and >= of two CompoundConcentrations of the same compound
\* compare their concentrations; of different compounds they give the
\* ordering of the (order, name) keys of the compounds, whatever the
\* concentrations.
C27_Ordering ==
    OrderedCase =>
        IF inp[1].compound.name = inp[2].q.compound.name
        THEN out = Ok(Ordered(inp[3], m_as_dimensionless(inp[1].concentration),
                              m_as_dimensionless(inp[2].q.concentration)))
        ELSE out = Ok(KeyOrdered(inp[3], Key(inp[1].compound), Key(inp[2].q.compound)))

\* 0.1 oxygen > 0.9 hydrogen: the compounds decide against the concentrations
C27_Witness ==
    /\ OrderedCase
    /\ inp[1].compound = oxygen /\ m_as_dimensionless(inp[1].concentration) = Rat(1, 10)
    /\ inp[2].q.compound = hydrogen /\ m_as_dimensionless(inp[2].q.concentration) = Rat(9, 10)
    /\ inp[3] = ">"
    /\ out = Ok(TRUE)

(***************************************************************************)
(* C28: the ordering of compounds and their equality.                       *)
(***************************************************************************)
\* C28 as stated: for any two Compounds a and b, two that share a name and
\* differ in order included, exactly one of a < b, a == b and a > b holds.
C28_Trichotomy ==
    call = "Compound.__lt__" =>
        \/ (out.val.lt /\ ~out.val.eq /\ ~out.val.gt)
        \/ (~out.val.lt /\ out.val.eq /\ ~out.val.gt)
        \/ (~out.val.lt /\ ~out.val.eq /\ out.val.gt)

(***************************************************************************)
(* C29: the display range.                                                  *)
(***************************************************************************)
\* The last call compacted a percent, ppm or ppb quantity that is not
\* negative, and compacted the result again
CompactTwiceCase ==
    /\ call = "Quantity.to_compact.to_compact"
    /\ inp[1].len = 0
    /\ inp[1].unit \in {"percent", "ppm", "ppb"}
    /\ RLe(Zero, inp[1].mag)

\* C29: the result of to_compact() on a percent, ppm or ppb quantity that is
\* not negative lies in the display range of its unit (ppm in [1, 1000), ppb
\* below 1000, percent at least 0.1), and to_compact() of the result changes
\* neither its unit nor its magnitude.
C29_DisplayRange ==
    CompactTwiceCase =>
        /\ out.err = "none"
        /\ Compact(out.val.once)
        /\ out.val.twice = out.val.once

\* 1000 ppb became 1 ppm and stayed 1 ppm
C29_Witness ==
    /\ CompactTwiceCase
    /\ inp[1] = Q(Rat(1000, 1), "ppb")
    /\ out.val.once = Q(One, "ppm")
    /\ out.val.twice = Q(One, "ppm")

(***************************************************************************)
(* C30: a balance compound that is among the components.                    *)
(***************************************************************************)
\* auto_balance was called with components that sum to at most 1 and a
\* balance compound that is among them
MergedBalanceCase ==
    /\ call = "Mixture.auto_balance"
    /\ RLe(SumAll(inp[1]), One)
    /\ inp[2].name \in Names(inp[1])

\* The result has a single part for the balance compound, and it holds what
\* was supplied of that compound plus 1 - s
HoldsMergedBalance ==
    /\ Len(Of(out.val.content, inp[2].name)) = 1
    /\ Fraction(Of(out.val.content, inp[2].name)[1]) =
           RAdd(SumAll(Of(inp[1], inp[2].name)), RSub(One, SumAll(inp[1])))

\* C30 as stated: for components that sum to s <= 1 and a balance compound B
\* among them, the result has a single merged entry for B at B's supplied
\* concentration plus 1 - s, every other component is unchanged, and the
\* total is 1.
C30_OthersUnchanged ==
    MergedBalanceCase =>
        /\ out.err = "none"
        /\ HoldsMergedBalance
        /\ \A i \in DOMAIN inp[1] :
              inp[1][i].compound.name # inp[2].name =>
                  \E j \in DOMAIN out.val.content :
                      ConcentrationEq(out.val.content[j], inp[1][i])
        /\ SumAll(out.val.content) = One

\* C30, amended: for components that sum to s <= 1 and a balance compound B
\* among them, the result has a single merged entry for B at the sum of B's
\* supplied concentrations plus 1 - s, one entry for every other compound
\* holding the sum of that compound's supplied concentrations (so a component
\* whose compound is supplied once is unchanged), and the total is 1.
C30_MergedBalance ==
    MergedBalanceCase =>
        /\ out.err = "none"
        /\ HoldsMergedBalance
        /\ Names(out.val.content) = Names(inp[1])
        /\ Len(out.val.content) = Cardinality(Names(inp[1]))
        /\ \A j \in DOMAIN out.val.content :
              out.val.content[j].compound.name # inp[2].name =>
                  Fraction(out.val.content[j]) =
                      SumAll(Of(inp[1], out.val.content[j].compound.name))
        /\ \A i \in DOMAIN inp[1] :
              (/\ inp[1][i].compound.name # inp[2].name
               /\ Len(Of(inp[1], inp[1][i].compound.name)) = 1) =>
                  \E j \in DOMAIN out.val.content :
                      ConcentrationEq(out.val.content[j], inp[1][i])
        /\ SumAll(out.val.content) = One

\* A quarter of oxygen and a quarter of nitrogen were balanced with nitrogen:
\* the result is a quarter of oxygen and three quarters of nitrogen
C30_Witness ==
    /\ MergedBalanceCase
    /\ Len(inp[1]) = 2
    /\ inp[1][1].compound = oxygen /\ Fraction(inp[1][1]) = Rat(1, 4)
    /\ inp[1][2].compound = nitrogen /\ Fraction(inp[1][2]) = Rat(1, 4)
    /\ inp[2] = nitrogen
    /\ out.err = "none"
    /\ Len(out.val.content) = 2
    /\ Fraction(Of(out.val.content, "Nitrogen")[1]) = Rat(3, 4)
    /\ Fraction(Of(out.val.content, "Oxygen")[1]) = Rat(1, 4)
====
